---------------------------- MODULE Spec2Model ----------------------------
(***************************************************************************)
(* A model of the everterm market mirror: the delta computer               *)
(* (esi/src/market.rs), the book applicator (data_fetcher/src/lib.rs) and  *)
(* the upstream client's error budget (esi/src/lib.rs).                    *)
(*                                                                         *)
(* Several specifications share the module:                                *)
(*   SpecDelta   Market::delta applied to every pair of bounded markets,   *)
(*               and the diff patched back onto the previous market;       *)
(*   Spec        refresh loops emitting snapshots into the mpsc channel    *)
(*               and update_market_data spawning one task per snapshot;    *)
(*   SpecClient  concurrent ESIClient::esi_get calls over a discrete clock,*)
(*               with the history of the budget recorded;                  *)
(*   SpecGets    the same calls without the history;                       *)
(*   SpecIds     the range-checked identifiers of esi/src/universe.rs;     *)
(*   SpecBuild   fetch_region assembling a market from fetched records;    *)
(*   SpecApply   the tasks of Spec with the critical section in steps,     *)
(*               and the requests for the orders of a type;                *)
(*   SpecLoop    refresh_region_data, fetch_region's page tasks and the    *)
(*               refresh interval map;                                     *)
(*   SpecLink    the refresh loops while the receivers of their two        *)
(*               channels may go away;                                     *)
(*   SpecSleep   the sleep a refresh loop computes after a fetch;          *)
(*   SpecFlow    the number of snapshots in the channel and in tasks;      *)
(*   SpecLive    the calls of SpecGets from a throttled client, with the   *)
(*               fairness of the runtime;                                  *)
(*   SpecFloat   Market::delta over markets whose prices may be NaN;       *)
(*   SpecPages   fetch_region from the pages of the upstream to the market *)
(*               it returns;                                               *)
(*   SpecSave    the debounced save of the region catalog.                 *)
(* Each specification leaves the variables of the others untouched.        *)
(***************************************************************************)
EXTENDS Integers, Sequences, FiniteSets, Bags, TLC

(***************************************************************************)
(* Bounds and sample domains.                                              *)
(***************************************************************************)
\* order ids 1..MaxOrder in the markets SpecDelta enumerates
MaxOrder == 2

\* item types; 34 and 35 are two real type ids (the spec's scenarios use 34)
TypeIds == {34, 35}

\* Two distinguishable order contents.  The delta looks at an order's fields
\* only through ==, so the price stands for all the non-id fields.
Prices == {10, 20}

\* f64::NAN, which is unequal to itself under the derived PartialEq
NaN == -1

OrderIds == 1..MaxOrder

\* snapshots the refresh loops send in one behaviour of Spec
MaxEmit == 2

\* two regions (The Forge, Domain) and the order ids each one's snapshots
\* may carry: an order sits in one station, so in one region
Regions == {10000002, 10000043}

RegionOrders == (10000002 :> {1}) @@ (10000043 :> {2})

\* Last-Modified and Expires header values, in seconds after the epoch
Stamps == {1, 2}

\* mpsc::channel(128)
ChannelCapacity == 128

\* concurrent esi_get calls in one behaviour of SpecClient
MaxGets == 2

\* the clock of SpecClient runs from 0 to MaxTime seconds
MaxTime == 3

Gets == 1..MaxGets

\* ESIClient::new: errors starts at 100, error_timeout at 0
InitialErrors == 100

InitialTimeout == 0

\* `if *errors <= 10`
ThrottleLimit == 10

\* u32::MAX, the value a wrapping `0 - 1` leaves in errors.  TLC's integers
\* end at 2^31 - 1, which stands for 2^32 - 1 here: the code only compares
\* the counter with 10 and decrements it.
U32Max == 2147483647

\* u32 `x - 1` in a build without overflow checks
WrappingDec(x) == IF x = 0 THEN U32Max ELSE x - 1

\* max_sem values the client is built with
SemCapacities == {1, 2}

\* x-esi-error-limit-remain and x-esi-error-limit-reset values of a 4xx
\* response: at the throttle limit, just above it, and zero
RemainValues == {0, 10, 11}

ResetValues == {0, 2}

\* response statuses: one per arm of the match at lib.rs 114-156
\* (200, 420, another 4xx, a 5xx, and a status of no arm)
Statuses == {200, 420, 404, 500, 304}

(***************************************************************************)
(* Data: Order, OrderBook, Market, MarketDiff.                             *)
(***************************************************************************)
\* An Order; the struct has no type_id field, the type is the key of the
\* OrderBook that holds it.
Order(i, p) == [id |-> i, price |-> p]

\* f64 == as derived PartialEq uses it
F64Eq(p, q) == p # NaN /\ q # NaN /\ p = q

\* #[derive(PartialEq)] on Order: fieldwise ==
OrderEq(a, b) == a.id = b.id /\ F64Eq(a.price, b.price)

\* OrderBook::new(item)
NewOrderBook(t) == [item |-> t, orders |-> <<>>]

\* Market::new(): no items, both timestamps the Unix epoch (0)
EmptyMarket == [items |-> <<>>, last_modified |-> 0, expires |-> 0]

\* MarketDiff::new()
EmptyDiff == [new |-> <<>>, modified |-> <<>>, removed |-> <<>>]

\* The order books over a set of ids: every map from a subset of the ids to
\* an order carrying that id (fetch_region inserts an order under order.id).
OrderMaps(ids) ==
    UNION {[s -> Prices] : s \in SUBSET ids}

BooksOf(t, ids) ==
    {[item |-> t, orders |-> [i \in DOMAIN pm |-> Order(i, pm[i])]] : pm \in OrderMaps(ids)}

\* The item maps over a set of types and of ids: each type absent, or present with any
\* order book, the empty one included (fetch_region creates the book before
\* it converts the record, so a type whose records are all dropped keeps an
\* empty book).
ItemMaps(types, ids) ==
    UNION {
        {f \in [ts -> UNION {BooksOf(t, ids) : t \in ts}] : \A t \in ts : f[t].item = t}
        : ts \in SUBSET types}

\* Markets with fixed timestamps, for the pure delta
Markets == {[items |-> im, last_modified |-> 1, expires |-> 1] : im \in ItemMaps(TypeIds, OrderIds)}

\* A Vec filled by walking a HashMap has no specified order: a bag with one
\* copy of F[i] per walked key i.
PushAll(S, F) ==
    [v \in {F[i] : i \in S} |-> Cardinality({i \in S : F[i] = v})]

(***************************************************************************)
(* Market::delta                                                           *)
(***************************************************************************)
\* faulty variant: line 377 pushes the old order instead of the new one
ModifiedOfOld(old, new) ==
    PushAll({i \in DOMAIN old \cap DOMAIN new : ~OrderEq(new[i], old[i])}, old)

\* faulty variant: line 372 tests == instead of !=
ModifiedOfInverted(old, new) ==
    PushAll({i \in DOMAIN old \cap DOMAIN new : OrderEq(new[i], old[i])}, new)

\* market.rs 369-386, the `Some(other_order)` arm: the new value of every
\* old order whose id is in both books and whose values differ
ModifiedOf(old, new) ==
    PushAll({i \in DOMAIN old \cap DOMAIN new : ~OrderEq(new[i], old[i])}, new)

\* market.rs 381-384 and 403-410: the id of every old order missing in new
RemovedOf(old, new) ==
    PushAll(DOMAIN old \ DOMAIN new, [i \in DOMAIN old |-> old[i].id])

\* faulty variant: line 390 without the contains_key test
NewOfAll(old, new) ==
    PushAll(DOMAIN new, new)

\* market.rs 388-400: every order of new whose id the old book lacks
NewOf(old, new) ==
    PushAll(DOMAIN new \ DOMAIN old, new)

NoOrders == <<>>

\* faulty variant: without the loop over the new market's items (415-421)
DiffNewLazyOnly(old, new) ==
    LET both == DOMAIN old \cap DOMAIN new
        lazy == {t \in both : DOMAIN new[t].orders \ DOMAIN old[t].orders # {}}
    IN  [t \in lazy |-> NewOf(old[t].orders, new[t].orders)]

\* diff.new: created inside the loop over the old items only when a new
\* order is met (392-394), and unconditionally, with every order of the
\* book, for a type the old market lacks (415-421)
DiffNew(old, new) ==
    LET both == DOMAIN old \cap DOMAIN new
        lazy == {t \in both : DOMAIN new[t].orders \ DOMAIN old[t].orders # {}}
        only == DOMAIN new \ DOMAIN old
    IN  [t \in lazy \cup only |->
            IF t \in both
            THEN NewOf(old[t].orders, new[t].orders)
            ELSE NewOf(NoOrders, new[t].orders)]

\* diff.modified: a list, possibly empty, for every type in both (365)
DiffModified(old, new) ==
    [t \in DOMAIN old \cap DOMAIN new |-> ModifiedOf(old[t].orders, new[t].orders)]

\* faulty variant: the `None` arm without its push loop (407-409)
DiffRemovedGoneEmpty(old, new) ==
    [t \in DOMAIN old |->
        IF t \in DOMAIN new
        THEN RemovedOf(old[t].orders, new[t].orders)
        ELSE EmptyBag]

\* diff.removed: a list, possibly empty, for every type of the old market
\* (366 for a type in both, 405 for a type that is gone)
DiffRemoved(old, new) ==
    [t \in DOMAIN old |->
        IF t \in DOMAIN new
        THEN RemovedOf(old[t].orders, new[t].orders)
        ELSE RemovedOf(old[t].orders, NoOrders)]

Delta(self, new_market) ==
    [new      |-> DiffNew(self.items, new_market.items),
     modified |-> DiffModified(self.items, new_market.items),
     removed  |-> DiffRemoved(self.items, new_market.items)]

(***************************************************************************)
(* Applying a diff to a book: update_market_data, lib.rs 112-157           *)
(***************************************************************************)
\* 114-121: for a type the book holds, drop every listed id
RemoveOrders(items, removed) ==
    [t \in DOMAIN items |->
        IF t \in DOMAIN removed
        THEN [items[t] EXCEPT !.orders =
                 [i \in DOMAIN items[t].orders \ BagToSet(removed[t]) |-> items[t].orders[i]]]
        ELSE items[t]]

\* 125-139 and 143-157: ensure the book exists, insert each order under its
\* id.  Two listed orders never share an id (each list is built from one
\* map's keys); the CHOOSE is then the single order with that id.
InsertOrders(items, lists) ==
    [t \in DOMAIN items \cup DOMAIN lists |->
        LET book == IF t \in DOMAIN items THEN items[t] ELSE NewOrderBook(t)
        IN  IF t \in DOMAIN lists
            THEN LET put == BagToSet(lists[t])
                     ids == {o.id : o \in put}
                 IN  [book EXCEPT !.orders =
                         [i \in DOMAIN book.orders \cup ids |->
                             IF i \in ids THEN CHOOSE o \in put : o.id = i
                             ELSE book.orders[i]]]
            ELSE book]

ApplyDiff(items, d) ==
    InsertOrders(InsertOrders(RemoveOrders(items, d.removed), d.new), d.modified)

(***************************************************************************)
(* State                                                                   *)
(***************************************************************************)
VARIABLES
    \* SpecDelta
    prev_market,    \* the market delta is called on (`self`)
    next_market,    \* its argument (`new_market`)
    diff,           \* the MarketDiff it returned
    patched,        \* prev_market's items after the diff was applied
    dpc,            \* "input", "diffed", "patched"
    \* Spec
    channel,        \* the mpsc channel: a queue of <<Market, Region>>
    tasks,          \* the tasks update_market_data spawned and that still run
    spawned,        \* how many it spawned
    regions,        \* DashMap<Region, Market>: the previous snapshot per region
    global_book,    \* the Market behind Arc<Mutex<Market>>
    book_lock,      \* the task holding that mutex, 0 when it is free
    emitted,        \* history: how many snapshots the loops sent
    latest,         \* history: the snapshot each region sent last
    applied,        \* history: the <<last_modified, expires>> of every
                    \* snapshot whose diff was applied to the book
    received,       \* history: the snapshot of each region received last
    \* SpecClient
    errors,         \* ESIClient::errors (behind its mutex)
    error_timeout,  \* ESIClient::error_timeout (behind its mutex)
    errors_lock,    \* the get holding the errors mutex, 0 when free
    timeout_lock,   \* the get holding the error_timeout mutex, 0 when free
    max_sem,        \* the capacity connect_pool was built with
    permits,        \* the permits connect_pool has left
    gets,           \* per esi_get call: where it is and what it holds
    now,            \* the clock, in seconds
    budget_set,     \* history: when a 4xx response last wrote errors, and
                    \* the two header values of that response
    fresh,          \* history: the gets that started since that write
    history,        \* whether the history of the client is recorded
    \* SpecIds
    id_kind,        \* the identifier type try_from is called for
    id_value,       \* the integer it is given
    id_result,      \* what it returned
    \* SpecBuild
    records,        \* the MarketAPIResponseOrder records of all pages
    built_market,   \* what fetch_region returned for them
    bpc,            \* "input", "built"
    \* SpecLoop
    catalog,        \* the region ids Regions::get_all returned at startup
    loops,          \* per region: where its refresh_region_data task is
    fetches,        \* how many times the loops called fetch_region
    page_tasks,     \* the page tasks fetch_region spawned and that still count
    events,         \* the refresh broadcast: events sent and not yet received
    refresh_intervals,  \* DashMap<u32, Option<DateTime<Utc>>>
    rx_open,        \* whether the receiver of the applicator channel lives
    subscribed,     \* whether the refresh broadcast has a receiver
    queue,          \* the applicator channel: region and expires of the
                    \* snapshots sent and not yet received
    \* SpecSleep
    expiry_time,    \* data.expires of the snapshot fetched, in seconds
    utc_now,        \* Utc::now() when the loop computes its sleep
    sleep_dur,      \* the sleep it computed, -1 before
    \* SpecFlow
    queued,         \* the snapshots in the applicator channel
    processing,     \* the tasks spawned for a snapshot and not yet past the
                    \* application of its diff
    sends,          \* how many snapshots the channel has accepted
    \* SpecApply
    committed,      \* history: the book when its lock was last released
    observed,       \* what the last request for the orders of a type was
                    \* answered, and what the book of `committed` answers
    \* SpecPages
    wire,           \* what the upstream serves: the pages of one region
    page_state,     \* per page task of fetch_region: how far it is
    order_responses,  \* the Vec the pages are decoded into (`orders`)
    fetched,        \* what fetch_region returned
    fpc,            \* "first", "join", "returned"
    \* SpecSave
    map,            \* Regions::map: the ids of the regions fetched
    last_fetch_time,  \* Option<Instant> behind its mutex, in seconds
    save_pending,   \* the bool behind its mutex
    savers,         \* the tasks trigger_debounced_save spawned
    cache_file,     \* the region ids regions.json holds
    instant,        \* Instant::now(), in seconds
    recent_fetch,   \* history: when fetch_region last succeeded
    last_flush      \* history: the last write of regions.json

deltaVars == <<prev_market, next_market, diff, patched, dpc>>

bookVars == <<channel, tasks, spawned, regions, global_book, book_lock,
              emitted, latest, applied, received>>

clientVars == <<errors, error_timeout, errors_lock, timeout_lock, max_sem, permits,
                gets, now, budget_set, fresh, history>>

idVars == <<id_kind, id_value, id_result>>

\* the variables of the specifications that follow SpecClient
buildVars == <<records, built_market, bpc>>

linkVars == <<rx_open, subscribed, queue>>

loopVars == <<catalog, loops, fetches, page_tasks, events, refresh_intervals, linkVars>>

sleepVars == <<expiry_time, utc_now, sleep_dur>>

flowVars == <<queued, processing, sends>>

applyVars == <<committed, observed>>

pageVars == <<wire, page_state, order_responses, fetched, fpc>>

saveVars == <<map, last_fetch_time, save_pending, savers, cache_file, instant,
              recent_fetch, last_flush>>

extraVars == <<pageVars, saveVars>>

laterVars == <<sleepVars, flowVars, applyVars, extraVars>>

restVars == <<idVars, buildVars, loopVars, laterVars>>

vars == <<deltaVars, bookVars, clientVars, restVars>>

\* the variables of SpecDelta at rest
DeltaIdle ==
    /\ prev_market = EmptyMarket
    /\ next_market = EmptyMarket
    /\ diff = EmptyDiff
    /\ patched = <<>>
    /\ dpc = "idle"

\* the variables of Spec at rest
BookIdle ==
    /\ channel = <<>>
    /\ tasks = <<>>
    /\ spawned = 0
    /\ regions = <<>>
    /\ global_book = EmptyMarket
    /\ book_lock = 0
    /\ emitted = 0
    /\ latest = <<>>
    /\ applied = {}
    /\ received = <<>>

\* try_from has not returned yet
NoId == [ok |-> FALSE, value |-> -1]

\* the variables of SpecIds at rest
IdsIdle ==
    /\ id_kind = "none"
    /\ id_value = 0
    /\ id_result = NoId

\* fetch_region has not returned
NoMarket == [ok |-> FALSE, items |-> <<>>]

\* the variables of SpecBuild at rest
BuildIdle ==
    /\ records = <<>>
    /\ built_market = NoMarket
    /\ bpc = "idle"

\* the variables of SpecLoop at rest
LoopIdle ==
    /\ catalog = {}
    /\ loops = <<>>
    /\ fetches = 0
    /\ page_tasks = {}
    /\ events = <<>>
    /\ refresh_intervals = <<>>
    /\ rx_open = TRUE
    /\ subscribed = TRUE
    /\ queue = <<>>

\* the variables of SpecSleep at rest
SleepIdle ==
    /\ expiry_time = 0
    /\ utc_now = 0
    /\ sleep_dur = -1

\* the variables of SpecFlow at rest
FlowIdle ==
    /\ queued = 0
    /\ processing = 0
    /\ sends = 0

\* no request has been answered
NoView == [type_id |-> 0, response |-> [status |-> 404, body |-> {}],
           whole |-> [status |-> 404, body |-> {}]]

\* the variables that only SpecApply changes, at rest
ApplyIdle ==
    /\ committed = EmptyMarket
    /\ observed = NoView

\* the variables of SpecPages at rest
PagesIdle ==
    /\ wire = <<>>
    /\ page_state = <<>>
    /\ order_responses = <<>>
    /\ fetched = NoMarket
    /\ fpc = "idle"

\* Option::None of an Instant
NoInstant == -1

\* regions.json has not been written
NoFlush == [at |-> -1, fetch_at |-> -1]

\* the variables of SpecSave at rest
SaveIdle ==
    /\ map = {}
    /\ last_fetch_time = NoInstant
    /\ save_pending = FALSE
    /\ savers = <<>>
    /\ cache_file = {}
    /\ instant = 0
    /\ recent_fetch = NoInstant
    /\ last_flush = NoFlush

ExtraIdle == PagesIdle /\ SaveIdle

LaterIdle == SleepIdle /\ FlowIdle /\ ApplyIdle /\ ExtraIdle

RestIdle == IdsIdle /\ BuildIdle /\ LoopIdle /\ LaterIdle

\* no response yet
NoResponse == [status |-> 0, remain |-> 0, reset |-> 0]

\* an esi_get call that has not been made yet
\* (status: the HTTP status of the response the call got, which the error it
\* returns carries, 0 before any response)
IdleGet == [pc |-> "idle", path |-> "none", wake |-> 0, resp |-> NoResponse,
            sent_at |-> -1, result |-> "none", joined |-> -1, status |-> 0]

NeverSet == [at |-> -1, remain |-> InitialErrors, reset |-> InitialTimeout]

\* the budget of the throttle scenario: a 4xx response left 5 errors and a
\* reset of 2 s (the scenario's 60 s on the scale of the clock)
ThrottledBudget == [at |-> 0, remain |-> 5, reset |-> 2]

\* A client with no call in progress: as ESIClient::new builds it (budget
\* NeverSet), or as an earlier call that got a 4xx response left it.
ClientNew(cap, budget, h) ==
    /\ errors = budget.remain
    /\ error_timeout = budget.reset
    /\ errors_lock = 0
    /\ timeout_lock = 0
    /\ max_sem = cap
    /\ permits = cap
    /\ gets = [g \in Gets |-> IdleGet]
    /\ now = 0
    /\ budget_set = IF h THEN budget ELSE NeverSet
    /\ fresh = {}
    /\ history = h

\* the variables of SpecClient at rest
ClientIdle == ClientNew(1, NeverSet, FALSE)

(***************************************************************************)
(* SpecDelta                                                               *)
(***************************************************************************)
DeltaInit ==
    /\ prev_market \in Markets \cup {EmptyMarket}
    /\ next_market \in Markets \cup {EmptyMarket}
    /\ diff = EmptyDiff
    /\ patched = <<>>
    /\ dpc = "input"
    /\ BookIdle
    /\ ClientIdle
    /\ RestIdle

\* prev.delta(&next)
ComputeDelta ==
    /\ dpc = "input"
    /\ diff' = Delta(prev_market, next_market)
    /\ dpc' = "diffed"
    /\ UNCHANGED <<prev_market, next_market, patched, bookVars, clientVars, restVars>>

\* the diff applied to the previous market's items the way the applicator
\* applies it to the global book
PatchPrev ==
    /\ dpc = "diffed"
    /\ patched' = ApplyDiff(prev_market.items, diff)
    /\ dpc' = "patched"
    /\ UNCHANGED <<prev_market, next_market, diff, bookVars, clientVars, restVars>>

DeltaNext == ComputeDelta \/ PatchPrev

SpecDelta == DeltaInit /\ [][DeltaNext]_vars

(***************************************************************************)
(* SpecFloat: Market::delta over markets whose prices may be NaN           *)
(***************************************************************************)
\* the values of an f64 price: the finite samples and NaN
F64Prices == Prices \cup {NaN}

\* markets of one type whose orders carry any f64 price (Order and Market
\* have public fields; a NaN does not come out of the JSON of the upstream)
F64Markets ==
    {[items |-> IF present
                THEN (t :> [item |-> t, orders |-> [i \in DOMAIN pm |-> Order(i, pm[i])]])
                ELSE <<>>,
      last_modified |-> 1, expires |-> 1]
        : pm \in UNION {[ids -> F64Prices] : ids \in SUBSET OrderIds},
          present \in BOOLEAN, t \in {CHOOSE u \in TypeIds : TRUE}}

FloatInit ==
    /\ prev_market \in F64Markets
    /\ next_market \in F64Markets
    /\ diff = EmptyDiff
    /\ patched = <<>>
    /\ dpc = "input"
    /\ BookIdle
    /\ ClientIdle
    /\ RestIdle

SpecFloat == FloatInit /\ [][DeltaNext]_vars

(***************************************************************************)
(* Spec: refresh loops, the channel and update_market_data                 *)
(***************************************************************************)
\* The snapshots fetch_region may return for a region: every item map of
\* type 34 over the region's orders with one pair of header times, and one
\* item map with every pair of header times (the applicator never reads the
\* orders and the times together).
StampedItems(r) ==
    LET i == CHOOSE i \in RegionOrders[r] : TRUE
    IN  (34 :> [item |-> 34, orders |-> (i :> Order(i, 10))])

SnapshotsOf(r) ==
    {[items |-> im, last_modified |-> 1, expires |-> 1] : im \in ItemMaps({34}, RegionOrders[r])}
    \cup
    {[items |-> StampedItems(r), last_modified |-> lm, expires |-> ex] : lm \in Stamps, ex \in Stamps}

\* faulty variant: the assignment without its `if`
NewerStampAlways(new, cur) == new

\* faulty variant: the rule of fetch_regions (238-241), which assigns only while the
\* book still carries the epoch
NewerStampFirst(new, cur) == IF cur = 0 THEN new ELSE cur

\* the timestamp update of lines 164-170
NewerStamp(new, cur) == IF new > cur THEN new ELSE cur

Init ==
    /\ DeltaIdle
    /\ BookIdle
    /\ ClientIdle
    /\ RestIdle

\* refresh_region_data, 32-54: a fetch succeeded and the snapshot was
\* accepted by the channel
SendSnapshot(r) ==
    /\ emitted < MaxEmit
    /\ Len(channel) < ChannelCapacity
    /\ \E snapshot \in SnapshotsOf(r) :
        /\ channel' = Append(channel, <<snapshot, r>>)
        /\ latest' = (r :> snapshot) @@ latest
    /\ emitted' = emitted + 1
    /\ UNCHANGED <<tasks, spawned, regions, global_book, book_lock, applied, received, deltaVars, clientVars, restVars>>

\* update_market_data, 84-88: rx.recv() yields the head and a task is
\* spawned for it; the loop goes straight back to recv
Recv ==
    /\ channel # <<>>
    /\ spawned' = spawned + 1
    /\ tasks' = (spawned' :> [pc |-> "delta", region |-> Head(channel)[2],
                              new_market |-> Head(channel)[1], diff |-> EmptyDiff,
                              pred |-> IF Head(channel)[2] \in DOMAIN received
                                       THEN received[Head(channel)[2]] ELSE EmptyMarket]) @@ tasks
    /\ received' = (Head(channel)[2] :> Head(channel)[1]) @@ received
    /\ channel' = Tail(channel)
    /\ UNCHANGED <<regions, global_book, book_lock, emitted, latest, applied, deltaVars, clientVars, restVars>>

\* 96-106: regions.get(&region), or Market::new() when the map has none
PrevMarket(r) == IF r \in DOMAIN regions THEN regions[r] ELSE EmptyMarket

\* 90-107: the diff against the region's stored snapshot, or against an
\* empty market when the map has none
TaskDelta(k) ==
    /\ k \in DOMAIN tasks
    /\ tasks[k].pc = "delta"
    /\ tasks' = [tasks EXCEPT ![k].diff = Delta(PrevMarket(tasks[k].region), tasks[k].new_market),
                              ![k].pc = "lock"]
    /\ UNCHANGED <<channel, spawned, regions, global_book, book_lock, emitted, latest, applied, received, deltaVars, clientVars, restVars>>

\* 110: book.lock().await
TaskLock(k) ==
    /\ k \in DOMAIN tasks
    /\ tasks[k].pc = "lock"
    /\ book_lock = 0
    /\ book_lock' = k
    /\ tasks' = [tasks EXCEPT ![k].pc = "apply"]
    /\ UNCHANGED <<channel, spawned, regions, global_book, emitted, latest, applied, received, deltaVars, clientVars, restVars>>

\* 112-173: removed, new and modified orders, the two timestamps, and the
\* drop of the guard; no await in between
TaskApply(k) ==
    /\ k \in DOMAIN tasks
    /\ tasks[k].pc = "apply"
    /\ book_lock = k
    /\ global_book' =
        [items         |-> ApplyDiff(global_book.items, tasks[k].diff),
         last_modified |-> NewerStamp(tasks[k].new_market.last_modified, global_book.last_modified),
         expires       |-> NewerStamp(tasks[k].new_market.expires, global_book.expires)]
    /\ book_lock' = 0
    /\ applied' = applied \cup {<<tasks[k].new_market.last_modified, tasks[k].new_market.expires>>}
    /\ tasks' = [tasks EXCEPT ![k].pc = "store"]
    /\ UNCHANGED <<channel, spawned, regions, emitted, latest, received, deltaVars, clientVars, restVars>>

\* 176: regions.insert(region, new_market); the task ends
TaskStore(k) ==
    /\ k \in DOMAIN tasks
    /\ tasks[k].pc = "store"
    /\ regions' = (tasks[k].region :> tasks[k].new_market) @@ regions
    /\ tasks' = [j \in DOMAIN tasks \ {k} |-> tasks[j]]
    /\ UNCHANGED <<channel, spawned, global_book, book_lock, emitted, latest, applied, received, deltaVars, clientVars, restVars>>

Next ==
    \/ \E r \in Regions : SendSnapshot(r)
    \/ Recv
    \/ \E k \in 1..MaxEmit : TaskDelta(k)
    \/ \E k \in 1..MaxEmit : TaskLock(k)
    \/ \E k \in 1..MaxEmit : TaskApply(k)
    \/ \E k \in 1..MaxEmit : TaskStore(k)

Spec == Init /\ [][Next]_vars

\* server.rs 33-39, GET /market/{id} for a parsed id: the orders of the book
\* under the key, NOT_FOUND when the book has no such key
OrdersByType(book, t) ==
    IF t \in DOMAIN book.items
    THEN [status |-> 200, body |-> {book.items[t].orders[i] : i \in DOMAIN book.items[t].orders}]
    ELSE [status |-> 404, body |-> {}]

(***************************************************************************)
(* SpecApply: the tasks of Spec with the critical section step by step,    *)
(* and the requests for the orders of a type                               *)
(***************************************************************************)
applyIdleVars == <<deltaVars, clientVars, idVars, buildVars, loopVars, sleepVars, flowVars,
                   extraVars>>

\* lib.rs 114-121: the loop over diff.removed
ApplyRemoved(k) ==
    /\ k \in DOMAIN tasks
    /\ tasks[k].pc = "apply"
    /\ book_lock = k
    /\ global_book' = [global_book EXCEPT !.items = RemoveOrders(@, tasks[k].diff.removed)]
    /\ tasks' = [tasks EXCEPT ![k].pc = "insert"]
    /\ UNCHANGED <<channel, spawned, regions, book_lock, emitted, latest, applied, received,
                   applyVars, applyIdleVars>>

\* lib.rs 125-139: the loop over diff.new
ApplyNew(k) ==
    /\ k \in DOMAIN tasks
    /\ tasks[k].pc = "insert"
    /\ book_lock = k
    /\ global_book' = [global_book EXCEPT !.items = InsertOrders(@, tasks[k].diff.new)]
    /\ tasks' = [tasks EXCEPT ![k].pc = "modify"]
    /\ UNCHANGED <<channel, spawned, regions, book_lock, emitted, latest, applied, received,
                   applyVars, applyIdleVars>>

\* faulty variant: the guard dropped after the overwrites, before the
\* timestamps
ApplyModifiedUnlock(k) ==
    /\ k \in DOMAIN tasks
    /\ tasks[k].pc = "modify"
    /\ book_lock = k
    /\ global_book' = [global_book EXCEPT !.items = InsertOrders(@, tasks[k].diff.modified)]
    /\ book_lock' = 0
    /\ tasks' = [tasks EXCEPT ![k].pc = "stamp"]
    /\ UNCHANGED <<channel, spawned, regions, emitted, latest, applied, received,
                   applyVars, applyIdleVars>>

\* lib.rs 143-157: the loop over diff.modified
ApplyModified(k) ==
    /\ k \in DOMAIN tasks
    /\ tasks[k].pc = "modify"
    /\ book_lock = k
    /\ global_book' = [global_book EXCEPT !.items = InsertOrders(@, tasks[k].diff.modified)]
    /\ tasks' = [tasks EXCEPT ![k].pc = "stamp"]
    /\ UNCHANGED <<channel, spawned, regions, book_lock, emitted, latest, applied, received,
                   applyVars, applyIdleVars>>

\* lib.rs 164-170: the two timestamps
ApplyStamps(k) ==
    /\ k \in DOMAIN tasks
    /\ tasks[k].pc = "stamp"
    /\ book_lock = k
    /\ global_book' =
        [global_book EXCEPT
            !.last_modified = NewerStamp(tasks[k].new_market.last_modified, @),
            !.expires = NewerStamp(tasks[k].new_market.expires, @)]
    /\ tasks' = [tasks EXCEPT ![k].pc = "unlock"]
    /\ UNCHANGED <<channel, spawned, regions, book_lock, emitted, latest, applied, received,
                   applyVars, applyIdleVars>>

\* faulty variant: no drop at 173, the guard lives to the end of the task
UnlockLate(k) ==
    /\ k \in DOMAIN tasks
    /\ tasks[k].pc = "unlock"
    /\ book_lock = k
    /\ applied' = applied \cup {<<tasks[k].new_market.last_modified, tasks[k].new_market.expires>>}
    /\ tasks' = [tasks EXCEPT ![k].pc = "store"]
    /\ UNCHANGED <<channel, spawned, regions, global_book, book_lock, emitted, latest, received,
                   applyVars, applyIdleVars>>

\* lib.rs 173: drop(global_book)
Unlock(k) ==
    /\ k \in DOMAIN tasks
    /\ tasks[k].pc = "unlock"
    /\ book_lock = k
    /\ book_lock' = 0
    /\ committed' = global_book
    /\ applied' = applied \cup {<<tasks[k].new_market.last_modified, tasks[k].new_market.expires>>}
    /\ tasks' = [tasks EXCEPT ![k].pc = "store"]
    /\ UNCHANGED <<channel, spawned, regions, global_book, emitted, latest, received,
                   observed, applyIdleVars>>

\* server.rs 32-38: market.lock().await.items.get(&id): the handler takes
\* the lock, answers from the book and lets the lock go, with no await in
\* between
Query(t) ==
    /\ book_lock = 0
    /\ observed' = [type_id |-> t, response |-> OrdersByType(global_book, t),
                    whole |-> OrdersByType(committed, t)]
    /\ UNCHANGED <<bookVars, committed, applyIdleVars>>

\* the critical section does not look at the region of a diff: the
\* snapshots of SpecApply are those of one region
OneRegion == CHOOSE r \in Regions : TRUE

ApplyNext ==
    \/ \E r \in {OneRegion} : SendSnapshot(r)
    \/ Recv
    \/ \E k \in 1..MaxEmit : TaskDelta(k)
    \/ \E k \in 1..MaxEmit : TaskLock(k)
    \/ \E k \in 1..MaxEmit : ApplyRemoved(k)
    \/ \E k \in 1..MaxEmit : ApplyNew(k)
    \/ \E k \in 1..MaxEmit : ApplyModified(k)
    \/ \E k \in 1..MaxEmit : ApplyStamps(k)
    \/ \E k \in 1..MaxEmit : Unlock(k)
    \/ \E k \in 1..MaxEmit : TaskStore(k)
    \/ \E t \in TypeIds : Query(t)

SpecApply == Init /\ [][ApplyNext]_vars

(***************************************************************************)
(* SpecClient: concurrent ESIClient::esi_get calls                         *)
(***************************************************************************)
ClientInit ==
    /\ DeltaIdle
    /\ BookIdle
    /\ RestIdle
    /\ \E cap \in SemCapacities, budget \in {NeverSet, ThrottledBudget} :
            ClientNew(cap, budget, TRUE)

\* what no step of a call changes
idleVars == <<deltaVars, bookVars, history, restVars>>

\* the wake time of the throttle wait in progress, -1 when no call sleeps in
\* one (the sleeper holds the errors mutex, so there is at most one)
WaitInProgress ==
    LET S == {gets[h].wake : h \in {h \in Gets : gets[h].pc = "sleep" /\ gets[h].path = "throttle"}}
    IN  IF S = {} THEN -1 ELSE CHOOSE w \in S : TRUE

\* the budget changed: no call counts as having joined an earlier wait
ForgetJoined(gs) == [h \in Gets |-> [gs[h] EXCEPT !.joined = -1]]

\* faulty variant: line 111 without the drop
ReleaseNone(p) == p

\* drop(permit), or the permit dropped with the frame of the call
Release(p) == p + 1

\* a caller enters esi_get
Start(g) ==
    /\ gets[g].pc = "idle"
    /\ gets' = [gets EXCEPT ![g].pc = "acquire",
                            ![g].joined = IF history THEN WaitInProgress ELSE -1]
    /\ fresh' = IF history THEN fresh \cup {g} ELSE fresh
    /\ UNCHANGED <<errors, error_timeout, errors_lock, timeout_lock, max_sem, permits,
                   now, budget_set, idleVars>>

\* 69: connect_pool.acquire().await
Acquire(g) ==
    /\ gets[g].pc = "acquire"
    /\ permits > 0
    /\ permits' = permits - 1
    /\ gets' = [gets EXCEPT ![g].pc = "check"]
    /\ UNCHANGED <<errors, error_timeout, errors_lock, timeout_lock, max_sem,
                   now, budget_set, fresh, idleVars>>

\* 73-77: errors.lock().await and the test.  Above the limit the guard is
\* dropped at once; at or below it the guard stays while await_esi_timeout
\* runs.
CheckBudget(g) ==
    /\ gets[g].pc = "check"
    /\ errors_lock = 0
    /\ IF errors <= ThrottleLimit
       THEN /\ errors_lock' = g
            /\ gets' = [gets EXCEPT ![g].pc = "timeout", ![g].path = "throttle"]
       ELSE /\ errors_lock' = 0
            /\ gets' = [gets EXCEPT ![g].pc = "send"]
    /\ UNCHANGED <<errors, error_timeout, timeout_lock, max_sem, permits,
                   now, budget_set, fresh, idleVars>>

\* 236-238: error_timeout.lock().await, then sleep(timeout) with the guard
\* still alive
LockTimeout(g) ==
    /\ gets[g].pc = "timeout"
    /\ timeout_lock = 0
    /\ timeout_lock' = g
    /\ gets' = [gets EXCEPT ![g].pc = "sleep", ![g].wake = now + error_timeout]
    /\ UNCHANGED <<errors, error_timeout, errors_lock, max_sem, permits,
                   now, budget_set, fresh, idleVars>>

\* faulty variant: the errors guard of 73 outlives the block of 71-77
WakeUpKeep(g) ==
    /\ gets[g].pc = "sleep"
    /\ now >= gets[g].wake
    /\ timeout_lock' = 0
    /\ errors_lock' = errors_lock
    /\ IF gets[g].path = "throttle"
       THEN gets' = [gets EXCEPT ![g].pc = "send", ![g].wake = 0]
       ELSE gets' = [gets EXCEPT ![g].pc = "done", ![g].wake = 0, ![g].result = "err"]
    /\ UNCHANGED <<errors, error_timeout, max_sem, permits, now, budget_set, fresh, idleVars>>

\* The sleep is over: await_esi_timeout returns and drops the error_timeout
\* guard.  Before the send (77) the errors guard is dropped too; after a 420
\* (117-119) the call returns the error.
WakeUp(g) ==
    /\ gets[g].pc = "sleep"
    /\ now >= gets[g].wake
    /\ timeout_lock' = 0
    /\ IF gets[g].path = "throttle"
       THEN /\ errors_lock' = 0
            /\ gets' = [gets EXCEPT ![g].pc = "send", ![g].wake = 0]
       ELSE /\ errors_lock' = errors_lock
            /\ gets' = [gets EXCEPT ![g].pc = "done", ![g].wake = 0, ![g].result = "err"]
    /\ UNCHANGED <<errors, error_timeout, max_sem, permits, now, budget_set, fresh, idleVars>>

\* 88: the first send leaves
BeginSend(g) ==
    /\ gets[g].pc = "send"
    /\ gets' = [gets EXCEPT ![g].pc = "flight",
                            ![g].sent_at = IF history THEN now ELSE -1]
    /\ UNCHANGED <<errors, error_timeout, errors_lock, timeout_lock, max_sem, permits,
                   now, budget_set, fresh, idleVars>>

\* faulty variant: the arm `400..=499` without its two assignments
ClassifyNoBudget(rec, resp) ==
    LET got == [rec EXCEPT !.status = resp.status]
    IN  CASE resp.status = 200 -> [got EXCEPT !.pc = "done", !.result = "ok"]
          [] resp.status = 420 -> [got EXCEPT !.pc = "timeout", !.path = "420"]
          [] OTHER -> [got EXCEPT !.pc = "done", !.result = "err"]

\* faulty variant: the budget arm as `400..=599`
ClassifyWide(rec, resp) ==
    LET got == [rec EXCEPT !.status = resp.status]
    IN  CASE resp.status = 200 -> [got EXCEPT !.pc = "done", !.result = "ok"]
          [] resp.status = 420 -> [got EXCEPT !.pc = "timeout", !.path = "420"]
          [] resp.status \in 400..599 /\ resp.status # 420 ->
                [got EXCEPT !.pc = "set_errors", !.resp = resp]
          [] OTHER -> [got EXCEPT !.pc = "done", !.result = "err"]

\* faulty variant: the arm `420` without await_esi_timeout
ClassifyNoWait(rec, resp) ==
    LET got == [rec EXCEPT !.status = resp.status]
    IN  CASE resp.status = 200 -> [got EXCEPT !.pc = "done", !.result = "ok"]
          [] resp.status \in 400..499 /\ resp.status # 420 ->
                [got EXCEPT !.pc = "set_errors", !.resp = resp]
          [] OTHER -> [got EXCEPT !.pc = "done", !.result = "err"]

\* 109-156 up to the first await: the permit is dropped and the status is
\* matched
Classify(rec, resp) ==
    LET got == [rec EXCEPT !.status = resp.status]
    IN  CASE resp.status = 200 -> [got EXCEPT !.pc = "done", !.result = "ok"]
          [] resp.status = 420 -> [got EXCEPT !.pc = "timeout", !.path = "420"]
          [] resp.status \in 400..499 /\ resp.status # 420 ->
                [got EXCEPT !.pc = "set_errors", !.resp = resp]
          [] OTHER -> [got EXCEPT !.pc = "done", !.result = "err"]

Responses ==
    {[status |-> st, remain |-> 0, reset |-> 0] : st \in Statuses \ {404}}
    \cup [status : {404}, remain : RemainValues, reset : ResetValues]

\* 88-90, 109-111: the first send returns a response
FirstResponse(g) ==
    /\ gets[g].pc = "flight"
    /\ \E resp \in Responses : gets' = [gets EXCEPT ![g] = Classify(@, resp)]
    /\ permits' = Release(permits)
    /\ UNCHANGED <<errors, error_timeout, errors_lock, timeout_lock, max_sem,
                   now, budget_set, fresh, idleVars>>

\* 88-95: the first send fails in the transport
FirstFailure(g) ==
    /\ gets[g].pc = "flight"
    /\ gets' = [gets EXCEPT ![g].pc = "decrement"]
    /\ UNCHANGED <<errors, error_timeout, errors_lock, timeout_lock, max_sem, permits,
                   now, budget_set, fresh, idleVars>>

\* 100: *self.errors.lock().await -= 1.  At 0 the u32 subtraction wraps in a
\* build without overflow checks and panics in one with them; the panic
\* unwinds the call and drops its permit.
Decrement(g) ==
    /\ gets[g].pc = "decrement"
    /\ errors_lock = 0
    /\ \/ /\ errors' = WrappingDec(errors)
          /\ gets' = [gets EXCEPT ![g].pc = "resend"]
          /\ UNCHANGED permits
       \/ /\ errors = 0
          /\ gets' = [gets EXCEPT ![g].pc = "done", ![g].result = "panic"]
          /\ permits' = Release(permits)
          /\ UNCHANGED errors
    /\ UNCHANGED <<error_timeout, errors_lock, timeout_lock, max_sem,
                   now, budget_set, fresh, idleVars>>

\* 102: the retry leaves
BeginRetry(g) ==
    /\ gets[g].pc = "resend"
    /\ gets' = [gets EXCEPT ![g].pc = "reflight"]
    /\ UNCHANGED <<errors, error_timeout, errors_lock, timeout_lock, max_sem, permits,
                   now, budget_set, fresh, idleVars>>

\* 102, 109-111: the retry returns a response
RetryResponse(g) ==
    /\ gets[g].pc = "reflight"
    /\ \E resp \in Responses : gets' = [gets EXCEPT ![g] = Classify(@, resp)]
    /\ permits' = Release(permits)
    /\ UNCHANGED <<errors, error_timeout, errors_lock, timeout_lock, max_sem,
                   now, budget_set, fresh, idleVars>>

\* 102-107: the retry fails too; the error is returned and the permit
\* dropped with the frame
RetryFailure(g) ==
    /\ gets[g].pc = "reflight"
    /\ gets' = [gets EXCEPT ![g].pc = "done", ![g].result = "err"]
    /\ permits' = Release(permits)
    /\ UNCHANGED <<errors, error_timeout, errors_lock, timeout_lock, max_sem,
                   now, budget_set, fresh, idleVars>>

\* 122-129: errors takes x-esi-error-limit-remain under its own lock
SetErrors(g) ==
    /\ gets[g].pc = "set_errors"
    /\ errors_lock = 0
    /\ errors' = gets[g].resp.remain
    /\ gets' = ForgetJoined([gets EXCEPT ![g].pc = "set_timeout"])
    /\ budget_set' = IF history
                     THEN [at |-> now, remain |-> gets[g].resp.remain, reset |-> gets[g].resp.reset]
                     ELSE budget_set
    /\ fresh' = {}
    /\ UNCHANGED <<error_timeout, errors_lock, timeout_lock, max_sem, permits, now, idleVars>>

\* 130-141: error_timeout takes x-esi-error-limit-reset under its own lock,
\* and the error is returned
SetTimeout(g) ==
    /\ gets[g].pc = "set_timeout"
    /\ timeout_lock = 0
    /\ error_timeout' = gets[g].resp.reset
    /\ gets' = ForgetJoined([gets EXCEPT ![g].pc = "done", ![g].result = "err",
                                         ![g].resp = NoResponse])
    /\ UNCHANGED <<errors, errors_lock, timeout_lock, max_sem, permits,
                   now, budget_set, fresh, idleVars>>

\* a second passes
Tick ==
    /\ now < MaxTime
    /\ now' = now + 1
    /\ UNCHANGED <<errors, error_timeout, errors_lock, timeout_lock, max_sem, permits,
                   gets, budget_set, fresh, idleVars>>

ClientNext ==
    \/ \E g \in Gets : Start(g)
    \/ \E g \in Gets : Acquire(g)
    \/ \E g \in Gets : CheckBudget(g)
    \/ \E g \in Gets : LockTimeout(g)
    \/ \E g \in Gets : WakeUp(g)
    \/ \E g \in Gets : BeginSend(g)
    \/ \E g \in Gets : FirstResponse(g)
    \/ \E g \in Gets : FirstFailure(g)
    \/ \E g \in Gets : Decrement(g)
    \/ \E g \in Gets : BeginRetry(g)
    \/ \E g \in Gets : RetryResponse(g)
    \/ \E g \in Gets : RetryFailure(g)
    \/ \E g \in Gets : SetErrors(g)
    \/ \E g \in Gets : SetTimeout(g)
    \/ Tick

SpecClient == ClientInit /\ [][ClientNext]_vars

\* The same calls with the history left unrecorded, for the properties that
\* read the client's own fields only.
GetsInit ==
    /\ DeltaIdle
    /\ BookIdle
    /\ RestIdle
    /\ \E cap \in SemCapacities, budget \in {NeverSet, ThrottledBudget} :
            ClientNew(cap, budget, FALSE)

SpecGets == GetsInit /\ [][ClientNext]_vars

(***************************************************************************)
(* SpecLive: the calls of SpecGets under fair scheduling, with a clock     *)
(* that runs on while a call sleeps                                        *)
(***************************************************************************)
\* lib.rs 238: the timer of a sleeping call runs on after the last second
\* Tick counts
Overtime ==
    /\ now >= MaxTime
    /\ \E g \in Gets : gets[g].pc = "sleep" /\ gets[g].wake > now
    /\ now' = now + 1
    /\ UNCHANGED <<errors, error_timeout, errors_lock, timeout_lock, max_sem, permits,
                   gets, budget_set, fresh, idleVars>>

\* a client that an earlier 4xx response left throttled: every call meets
\* the throttle wait unless a later response lifts it
LiveInit ==
    /\ DeltaIdle
    /\ BookIdle
    /\ RestIdle
    /\ \E cap \in SemCapacities : ClientNew(cap, ThrottledBudget, FALSE)

LiveNext ==
    \/ \E g \in Gets : Start(g)
    \/ \E g \in Gets : Acquire(g)
    \/ \E g \in Gets : CheckBudget(g)
    \/ \E g \in Gets : LockTimeout(g)
    \/ \E g \in Gets : WakeUp(g)
    \/ \E g \in Gets : BeginSend(g)
    \/ \E g \in Gets : FirstResponse(g)
    \/ \E g \in Gets : FirstFailure(g)
    \/ \E g \in Gets : Decrement(g)
    \/ \E g \in Gets : BeginRetry(g)
    \/ \E g \in Gets : RetryResponse(g)
    \/ \E g \in Gets : RetryFailure(g)
    \/ \E g \in Gets : SetErrors(g)
    \/ \E g \in Gets : SetTimeout(g)
    \/ Tick
    \/ Overtime

\* The runtime polls every task that can go on, timers fire and every send
\* ends: a step that stays possible is taken.  Every behaviour is finite
\* (a call only moves forward, the clock stops with the last sleeper), so
\* fairness of the whole relation is all that is needed.
SpecLive == LiveInit /\ [][LiveNext]_vars /\ WF_vars(LiveNext)

(***************************************************************************)
(* SpecIds: the range-checked identifiers of esi/src/universe.rs           *)
(***************************************************************************)
IdKinds == {"RegionID", "ConstellationID", "SystemID", "StationID"}

\* the integers tried: both ends of every range and their neighbours, zero,
\* a value inside a range and a large one
IdSamples ==
    {0, 9999999, 10000000, 15000000, 19999999, 20000000, 29999999, 30000000,
     39999999, 40000000, 59999999, 60000000, 63999999, 64000000, U32Max}

\* faulty variant: the pattern `start..=end`
InRangeInclusive(value, start, end) == start <= value /\ value <= end

\* the match pattern `start..end`
InRange(value, start, end) == start <= value /\ value < end

IdOk(value) == [ok |-> TRUE, value |-> value]

\* InvalidIDError { value, acceptable }
InvalidIDError(value, start, end) ==
    [ok |-> FALSE, value |-> value, acceptable |-> [start |-> start, end |-> end]]

\* universe.rs 87-99
RegionIDTryFrom(value) ==
    IF InRange(value, 10000000, 20000000)
    THEN IdOk(value) ELSE InvalidIDError(value, 10000000, 20000000)

\* universe.rs 469-481
ConstellationIDTryFrom(value) ==
    IF InRange(value, 20000000, 30000000)
    THEN IdOk(value) ELSE InvalidIDError(value, 20000000, 30000000)

\* universe.rs 335-347
SystemIDTryFrom(value) ==
    IF InRange(value, 30000000, 40000000)
    THEN IdOk(value) ELSE InvalidIDError(value, 30000000, 40000000)

\* universe.rs 511-523
StationIDTryFrom(value) ==
    IF InRange(value, 60000000, 64000000)
    THEN IdOk(value) ELSE InvalidIDError(value, 60000000, 64000000)

IdsInit ==
    /\ id_kind \in IdKinds
    /\ id_value \in IdSamples
    /\ id_result = NoId
    /\ DeltaIdle
    /\ BookIdle
    /\ ClientIdle
    /\ BuildIdle
    /\ LoopIdle
    /\ LaterIdle

\* <kind>::try_from(id_value)
TryFromId ==
    /\ id_result = NoId
    /\ id_result' = CASE id_kind = "RegionID" -> RegionIDTryFrom(id_value)
                       [] id_kind = "ConstellationID" -> ConstellationIDTryFrom(id_value)
                       [] id_kind = "SystemID" -> SystemIDTryFrom(id_value)
                       [] id_kind = "StationID" -> StationIDTryFrom(id_value)
    /\ UNCHANGED <<id_kind, id_value, deltaVars, bookVars, clientVars, buildVars, loopVars, laterVars>>

IdsNext == TryFromId

SpecIds == IdsInit /\ [][IdsNext]_vars

(***************************************************************************)
(* SpecBuild: fetch_region assembling the market from the fetched records  *)
(***************************************************************************)
\* records fetch_region is given in one behaviour of SpecBuild
MaxRecords == 2

\* location ids around both ends of the station range (a structure id lies
\* above it)
LocationSamples == {59999999, 60000000, 63999999, 64000000}

\* MarketAPIResponseOrder, with the fields the assembly reads; `issued` is
\* an RFC 3339 date or not
RawRecords ==
    [order_id : OrderIds, type_id : TypeIds, location_id : LocationSamples,
     issued : {"rfc3339", "garbled"}, price : {10}]

RecordLists == UNION {[1..n -> RawRecords] : n \in 0..MaxRecords}

\* faulty variant: the location taken over without StationID::try_from
OrderTryFromUnchecked(value) ==
    IF value.issued # "rfc3339"
    THEN [ok |-> FALSE, error |-> "ParseError"]
    ELSE [ok |-> TRUE,
          order |-> [id |-> value.order_id, price |-> value.price,
                     location_id |-> value.location_id]]

\* market.rs 133-157, impl TryFrom<MarketAPIResponseOrder> for Order: the
\* date is parsed, then the location is made a StationID
OrderTryFrom(value) ==
    IF value.issued # "rfc3339"
    THEN [ok |-> FALSE, error |-> "ParseError"]
    ELSE LET location_id == StationIDTryFrom(value.location_id)
         IN  IF ~location_id.ok
             THEN [ok |-> FALSE, error |-> "InvalidIDError"]
             ELSE [ok |-> TRUE,
                   order |-> [id |-> value.order_id, price |-> value.price,
                              location_id |-> location_id.value]]

\* market.rs 323-345, one turn of the loop: the order book of the type is
\* created when missing, then the record is converted and, if that worked,
\* inserted under its order id; a failed conversion is only logged
InsertRecord(items, order_response) ==
    LET t == order_response.type_id
        with_book == IF t \in DOMAIN items THEN items ELSE (t :> NewOrderBook(t)) @@ items
        converted == OrderTryFrom(order_response)
    IN  IF converted.ok
        THEN [with_book EXCEPT ![t].orders = (converted.order.id :> converted.order) @@ @]
        ELSE with_book

RECURSIVE InsertRecords(_, _)
\* market.rs 322-346: the loop over the records in the order of the vector
InsertRecords(items, orders) ==
    IF orders = <<>> THEN items
    ELSE InsertRecords(InsertRecord(items, Head(orders)), Tail(orders))

BuildInit ==
    /\ records \in RecordLists
    /\ built_market = NoMarket
    /\ bpc = "input"
    /\ DeltaIdle
    /\ BookIdle
    /\ ClientIdle
    /\ IdsIdle
    /\ LoopIdle
    /\ LaterIdle

\* market.rs 314-352: the market starts without items and is returned Ok
\* after the loop
BuildMarket ==
    /\ bpc = "input"
    /\ built_market' = [ok |-> TRUE, items |-> InsertRecords(<<>>, records)]
    /\ bpc' = "built"
    /\ UNCHANGED <<records, deltaVars, bookVars, clientVars, idVars, loopVars, laterVars>>

BuildNext == BuildMarket

SpecBuild == BuildInit /\ [][BuildNext]_vars

(***************************************************************************)
(* SpecLoop: the refresh loops, fetch_region's page tasks and the refresh  *)
(* interval map                                                            *)
(***************************************************************************)
\* calls of fetch_region the loops make in one behaviour of SpecLoop
MaxFetch == 2

\* the greatest x-pages a first page announces
MaxPages == 3

\* Option::None in the refresh interval map (header times are after the
\* epoch)
Absent == 0

\* faulty variant: the map built empty and filled by the events
NewIntervalsEmpty(region_map) == <<>>

\* main.rs 63-64: every region of the catalog mapped to None
NewIntervals(region_map) == [r \in region_map |-> Absent]

LoopInit ==
    /\ catalog \in SUBSET Regions \ {{}}
    /\ loops = [r \in catalog |-> [pc |-> "fetch", fetch |-> 0, expires |-> 0]]
    /\ fetches = 0
    /\ page_tasks = {}
    /\ events = <<>>
    /\ refresh_intervals = NewIntervals(catalog)
    /\ rx_open = TRUE
    /\ subscribed = TRUE
    /\ queue = <<>>
    /\ DeltaIdle
    /\ BookIdle
    /\ ClientIdle
    /\ IdsIdle
    /\ BuildIdle
    /\ LaterIdle

loopIdleVars == <<deltaVars, bookVars, clientVars, idVars, buildVars, laterVars, catalog>>

\* what only BeginFetch changes
loopFixed == <<fetches, loopIdleVars>>

\* the page tasks of the fetch_region call a loop is in
PagesOf(r) == {t \in page_tasks : t.region = r /\ t.fetch = loops[r].fetch}

\* lib.rs 32, market.rs 262-264: the loop calls fetch_region, which requests
\* the first page
BeginFetch(r) ==
    /\ r \in catalog
    /\ loops[r].pc = "fetch"
    /\ fetches < MaxFetch
    /\ fetches' = fetches + 1
    /\ loops' = [loops EXCEPT ![r].pc = "first", ![r].fetch = @ + 1]
    /\ UNCHANGED <<page_tasks, events, refresh_intervals, linkVars, loopIdleVars>>

\* market.rs 265-311: the first page came with its headers; one task is
\* spawned per further page and the tasks are awaited together
FirstPageOk(r) ==
    /\ r \in catalog
    /\ loops[r].pc = "first"
    /\ \E num_pages \in 1..MaxPages, expires \in Stamps :
        /\ page_tasks' = page_tasks \cup
               {[region |-> r, fetch |-> loops[r].fetch, page |-> page, state |-> "running"]
                   : page \in 2..num_pages}
        /\ loops' = [loops EXCEPT ![r].pc = "join", ![r].expires = expires]
    /\ UNCHANGED <<events, refresh_intervals, linkVars, loopFixed>>

\* market.rs 262-264, 272-294: the first request failed, or a header or the
\* body did not parse: fetch_region returns the error (lib.rs 69-73)
FirstPageErr(r) ==
    /\ r \in catalog
    /\ loops[r].pc = "first"
    /\ loops' = [loops EXCEPT ![r].pc = "backoff"]
    /\ UNCHANGED <<page_tasks, events, refresh_intervals, linkVars, loopFixed>>

\* market.rs 266-283: x-pages is not a number, or Last-Modified or Expires
\* is missing: the unwrap or expect panics and the loop's task ends.  So it
\* does when the first request gets a 4xx without one of the budget headers
\* (esi/src/lib.rs 122-137: the expect panics inside esi_get).
FirstPagePanic(r) ==
    /\ r \in catalog
    /\ loops[r].pc = "first"
    /\ loops' = [loops EXCEPT ![r].pc = "panicked"]
    /\ UNCHANGED <<page_tasks, events, refresh_intervals, linkVars, loopFixed>>

\* The page tasks after task t ended in `state`.  While its fetch_region
\* call still awaits it the result waits in its JoinHandle; after that call
\* returned the handle is gone and nothing is left of the task.
EndPage(t, state) ==
    IF loops[t.region].pc = "join" /\ loops[t.region].fetch = t.fetch
    THEN (page_tasks \ {t}) \cup {[t EXCEPT !.state = state]}
    ELSE page_tasks \ {t}

\* market.rs 302-310: the page was fetched, decoded and appended
PageDone(t) ==
    /\ t \in page_tasks
    /\ t.state = "running"
    /\ page_tasks' = EndPage(t, "done")
    /\ UNCHANGED <<loops, events, refresh_intervals, linkVars, loopFixed>>

\* market.rs 302-308: esi_get or the decoding failed and the expect panics
PagePanic(t) ==
    /\ t \in page_tasks
    /\ t.state = "running"
    /\ page_tasks' = EndPage(t, "panicked")
    /\ UNCHANGED <<loops, events, refresh_intervals, linkVars, loopFixed>>

\* market.rs 320-352: every handle returned Ok; the market is assembled and
\* returned
JoinOk(r) ==
    /\ r \in catalog
    /\ loops[r].pc = "join"
    /\ \A t \in PagesOf(r) : t.state = "done"
    /\ page_tasks' = page_tasks \ PagesOf(r)
    /\ loops' = [loops EXCEPT ![r].pc = "send"]
    /\ UNCHANGED <<events, refresh_intervals, linkVars, loopFixed>>

\* market.rs 320: try_join_all returns the first JoinError it meets and
\* fetch_region returns it; the handles are dropped, which leaves the tasks
\* that still run running
JoinErr(r) ==
    /\ r \in catalog
    /\ loops[r].pc = "join"
    /\ \E t \in PagesOf(r) : t.state = "panicked"
    /\ page_tasks' = {t \in page_tasks : t \notin PagesOf(r) \/ t.state = "running"}
    /\ loops' = [loops EXCEPT ![r].pc = "backoff"]
    /\ UNCHANGED <<events, refresh_intervals, linkVars, loopFixed>>

\* lib.rs 49-53: the channel has room and its receiver lives: it takes the
\* snapshot
LoopSend(r) ==
    /\ r \in catalog
    /\ loops[r].pc = "send"
    /\ rx_open
    /\ Len(queue) < ChannelCapacity
    /\ queue' = Append(queue, [region_id |-> r, expires |-> loops[r].expires])
    /\ loops' = [loops EXCEPT ![r].pc = "broadcast"]
    /\ UNCHANGED <<page_tasks, events, refresh_intervals, rx_open, subscribed, loopFixed>>

\* lib.rs 50-53: the receiver is gone: send returns Err and the loop breaks
LoopSendClosed(r) ==
    /\ r \in catalog
    /\ loops[r].pc = "send"
    /\ ~rx_open
    /\ loops' = [loops EXCEPT ![r].pc = "exited"]
    /\ UNCHANGED <<page_tasks, events, refresh_intervals, linkVars, loopFixed>>

\* faulty variant: the Err of the broadcast handled like the Err of the send
LoopBroadcastStrict(r) ==
    /\ r \in catalog
    /\ loops[r].pc = "broadcast"
    /\ events' = IF subscribed
                 THEN Append(events, [region_id |-> r, expires |-> loops[r].expires])
                 ELSE events
    /\ loops' = [loops EXCEPT ![r].pc = IF subscribed THEN "sleep" ELSE "exited"]
    /\ UNCHANGED <<page_tasks, refresh_intervals, linkVars, loopFixed>>

\* lib.rs 55-64: the refresh event is broadcast; without a receiver send
\* returns Err, which the loop ignores
LoopBroadcast(r) ==
    /\ r \in catalog
    /\ loops[r].pc = "broadcast"
    /\ events' = IF subscribed
                 THEN Append(events, [region_id |-> r, expires |-> loops[r].expires])
                 ELSE events
    /\ loops' = [loops EXCEPT ![r].pc = "sleep"]
    /\ UNCHANGED <<page_tasks, refresh_intervals, linkVars, loopFixed>>

\* lib.rs 66: the sleep until the snapshot expires is over
LoopSleep(r) ==
    /\ r \in catalog
    /\ loops[r].pc = "sleep"
    /\ loops' = [loops EXCEPT ![r].pc = "fetch"]
    /\ UNCHANGED <<page_tasks, events, refresh_intervals, linkVars, loopFixed>>

\* lib.rs 69-73: the 15 s after a failed fetch are over
Backoff(r) ==
    /\ r \in catalog
    /\ loops[r].pc = "backoff"
    /\ loops' = [loops EXCEPT ![r].pc = "fetch"]
    /\ UNCHANGED <<page_tasks, events, refresh_intervals, linkVars, loopFixed>>

\* get_refresh_intervals: on each event, intervals[region_id] = Some(expires)
TrackEvent ==
    /\ subscribed
    /\ events # <<>>
    /\ refresh_intervals' = (Head(events).region_id :> Head(events).expires) @@ refresh_intervals
    /\ events' = Tail(events)
    /\ UNCHANGED <<loops, page_tasks, linkVars, loopFixed>>

\* lib.rs 84: rx.recv() takes the head of the channel
ApplicatorRecv ==
    /\ rx_open
    /\ queue # <<>>
    /\ queue' = Tail(queue)
    /\ UNCHANGED <<loops, page_tasks, events, refresh_intervals, rx_open, subscribed, loopFixed>>

PageTasks ==
    [region : Regions, fetch : 1..MaxFetch, page : 2..MaxPages, state : {"running"}]

LoopNext ==
    \/ \E r \in Regions : BeginFetch(r)
    \/ \E r \in Regions : FirstPageOk(r)
    \/ \E r \in Regions : FirstPageErr(r)
    \/ \E r \in Regions : FirstPagePanic(r)
    \/ \E t \in PageTasks : PageDone(t)
    \/ \E t \in PageTasks : PagePanic(t)
    \/ \E r \in Regions : JoinOk(r)
    \/ \E r \in Regions : JoinErr(r)
    \/ \E r \in Regions : LoopSend(r)
    \/ \E r \in Regions : LoopBroadcast(r)
    \/ \E r \in Regions : LoopSleep(r)
    \/ \E r \in Regions : Backoff(r)
    \/ TrackEvent
    \/ ApplicatorRecv

SpecLoop == LoopInit /\ [][LoopNext]_vars

(***************************************************************************)
(* SpecLink: the refresh loops with a fetch_region call as one step, and   *)
(* the two receivers they send to able to go away                          *)
(***************************************************************************)
\* market.rs 260-352: fetch_region returns Ok with the snapshot (every page
\* arrived and the headers of the first parsed)
FetchOk(r) ==
    /\ r \in catalog
    /\ loops[r].pc = "first"
    /\ \E expires \in Stamps : loops' = [loops EXCEPT ![r].pc = "send", ![r].expires = expires]
    /\ UNCHANGED <<page_tasks, events, refresh_intervals, linkVars, loopFixed>>

\* update_market_data owns the receiver (lib.rs 78-84): it is dropped,
\* with what the channel still holds, when that task is cancelled or the
\* runtime shuts down
DropReceiver ==
    /\ rx_open
    /\ rx_open' = FALSE
    /\ queue' = <<>>
    /\ UNCHANGED <<loops, page_tasks, events, refresh_intervals, subscribed, loopFixed>>

\* the only receiver of the broadcast is moved into the tracker's task
\* (main.rs 43, 65): it is dropped, with the events it has not read, when
\* that task ends
DropTracker ==
    /\ subscribed
    /\ subscribed' = FALSE
    /\ events' = <<>>
    /\ UNCHANGED <<loops, page_tasks, refresh_intervals, rx_open, queue, loopFixed>>

LinkNext ==
    \/ \E r \in Regions : BeginFetch(r)
    \/ \E r \in Regions : FetchOk(r)
    \/ \E r \in Regions : FirstPageErr(r)
    \/ \E r \in Regions : FirstPagePanic(r)
    \/ \E r \in Regions : LoopSend(r)
    \/ \E r \in Regions : LoopSendClosed(r)
    \/ \E r \in Regions : LoopBroadcast(r)
    \/ \E r \in Regions : LoopSleep(r)
    \/ \E r \in Regions : Backoff(r)
    \/ TrackEvent
    \/ ApplicatorRecv
    \/ DropReceiver
    \/ DropTracker

SpecLink == LoopInit /\ [][LinkNext]_vars

(***************************************************************************)
(* SpecSleep: the sleep a refresh loop computes after a successful fetch   *)
(***************************************************************************)
\* the latest second of the clock and of the Expires header tried
MaxClock == 9

\* Duration::from_secs(30), the sleep when the conversion to_std fails
FallbackSleep == 30

\* faulty variant: a negative difference taken as no sleep at all
SleepDurFloor(expires, current) ==
    IF expires - current + 1 >= 0 THEN expires - current + 1 ELSE 0

\* lib.rs 36-42: (expiry_time - Utc::now() + TimeDelta::new(1, 0)).to_std()
\* is an error exactly when the TimeDelta is negative, and unwrap_or then
\* gives the 30 s
SleepDur(expires, current) ==
    IF expires - current + 1 >= 0 THEN expires - current + 1 ELSE FallbackSleep

SleepInit ==
    /\ expiry_time \in 0..MaxClock
    /\ utc_now \in 0..MaxClock
    /\ sleep_dur = -1
    /\ DeltaIdle
    /\ BookIdle
    /\ ClientIdle
    /\ IdsIdle
    /\ BuildIdle
    /\ LoopIdle
    /\ FlowIdle
    /\ ApplyIdle
    /\ ExtraIdle

\* lib.rs 36-42: the loop computes sleep_dur, which it sleeps at line 66
ComputeSleep ==
    /\ sleep_dur = -1
    /\ sleep_dur' = SleepDur(expiry_time, utc_now)
    /\ UNCHANGED <<expiry_time, utc_now, deltaVars, bookVars, clientVars, idVars,
                   buildVars, loopVars, flowVars, applyVars, extraVars>>

SleepNext == ComputeSleep

SpecSleep == SleepInit /\ [][SleepNext]_vars

(***************************************************************************)
(* SpecFlow: how many snapshots are in the channel and in the tasks of the *)
(* applicator                                                              *)
(***************************************************************************)
\* snapshots the loops send in one behaviour of SpecFlow
MaxSends == 130

FlowInit ==
    /\ queued = 0
    /\ processing = 0
    /\ sends = 0
    /\ DeltaIdle
    /\ BookIdle
    /\ ClientIdle
    /\ IdsIdle
    /\ BuildIdle
    /\ LoopIdle
    /\ SleepIdle
    /\ ApplyIdle
    /\ ExtraIdle

flowIdleVars == <<deltaVars, bookVars, clientVars, idVars, buildVars, loopVars,
                  sleepVars, applyVars, extraVars>>

\* lib.rs 50, main.rs 48: a loop's send returns as soon as the channel, of
\* capacity 128, has room; until then the loop waits in it
FlowSend ==
    /\ sends < MaxSends
    /\ queued < ChannelCapacity
    /\ queued' = queued + 1
    /\ sends' = sends + 1
    /\ UNCHANGED <<processing, flowIdleVars>>

\* lib.rs 84-88: rx.recv() yields a snapshot and tokio::spawn starts a task
\* for it; the loop does not wait for the task and receives again
FlowRecv ==
    /\ queued > 0
    /\ queued' = queued - 1
    /\ processing' = processing + 1
    /\ UNCHANGED <<sends, flowIdleVars>>

\* lib.rs 90-173: a task has computed its diff, waited for the lock of the
\* book and applied the diff
FlowApplied ==
    /\ processing > 0
    /\ processing' = processing - 1
    /\ UNCHANGED <<queued, sends, flowIdleVars>>

FlowNext ==
    \/ FlowSend
    \/ FlowRecv
    \/ FlowApplied

SpecFlow == FlowInit /\ [][FlowNext]_vars

(***************************************************************************)
(* SpecPages: Market::fetch_region from the pages of the upstream to the   *)
(* market it returns                                                       *)
(***************************************************************************)
\* records of one page
MaxPerPage == 2

\* What a record on the wire may be like: well formed, with a date that is
\* not RFC 3339, or with a system id outside the range
RecordShapes ==
    {[issued |-> "rfc3339", system_id |-> 39999999],
     [issued |-> "garbled", system_id |-> 39999999],
     [issued |-> "rfc3339", system_id |-> 40000000]}

\* The record of page `page` at slot k: MarketAPIResponseOrder as it is on
\* the wire, with the fields the decoding and the assembly read.  Order ids
\* are distinct over the pages, the station is a valid one.
WireRecord(page, k, shape) ==
    [order_id |-> MaxPerPage * (page - 1) + k, type_id |-> CHOOSE t \in TypeIds : TRUE,
     location_id |-> 60000000, issued |-> shape.issued, price |-> 10,
     system_id |-> shape.system_id]

\* What a request for a page ends in: esi_get's Err (a status other than
\* 200, or a transport failure), or a 200 with a body of up to MaxPerPage
\* records
PageShapes ==
    {[status |-> "failed", body |-> <<>>]}
    \cup UNION {{[status |-> "ok", body |-> b] : b \in [1..n -> RecordShapes]}
                   : n \in 0..MaxPerPage}

WirePage(page, shape) ==
    [status |-> shape.status,
     body |-> [k \in 1..Len(shape.body) |-> WireRecord(page, k, shape.body[k])]]

\* the pages of a region: x-pages of the first page is their number
Wires(num_pages) ==
    {[page \in 1..num_pages |-> WirePage(page, shapes[page])]
        : shapes \in [1..num_pages -> PageShapes]}

\* market.rs 82-95, universe.rs 325-333: json::<Vec<MarketAPIResponseOrder>>
\* deserializes every record, its system_id through SystemID::try_from; one
\* record that fails fails the vector
DecodePage(body) ==
    IF \A k \in 1..Len(body) : SystemIDTryFrom(body[k].system_id).ok
    THEN [ok |-> TRUE, records |-> body]
    ELSE [ok |-> FALSE, records |-> <<>>]

PagesInit ==
    /\ \E num_pages \in 1..MaxPages : wire \in Wires(num_pages)
    /\ page_state = <<>>
    /\ order_responses = <<>>
    /\ fetched = NoMarket
    /\ fpc = "first"
    /\ DeltaIdle
    /\ BookIdle
    /\ ClientIdle
    /\ IdsIdle
    /\ BuildIdle
    /\ LoopIdle
    /\ SleepIdle
    /\ FlowIdle
    /\ ApplyIdle
    /\ SaveIdle

pagesIdleVars == <<wire, deltaVars, bookVars, clientVars, idVars, buildVars, loopVars,
                   sleepVars, flowVars, applyVars, saveVars>>

\* market.rs 262-311: the first page is requested and decoded, either with
\* `?`; then one task is spawned per page 2..=num_pages.  (The headers of
\* the first page are well formed here; FirstPagePanic of SpecLoop is the
\* other case.)
FetchFirst ==
    /\ fpc = "first"
    /\ LET pages == DecodePage(wire[1].body)
       IN  IF wire[1].status = "ok" /\ pages.ok
           THEN /\ order_responses' = pages.records
                /\ page_state' = [page \in 2..Len(wire) |-> "running"]
                /\ fpc' = "join"
           ELSE /\ fpc' = "returned"
                /\ UNCHANGED <<order_responses, page_state>>
    /\ UNCHANGED <<fetched, pagesIdleVars>>

\* market.rs 298-311, the task of one page: esi_get and the decoding, each
\* with expect, then the records are appended under the lock of the vector
PageTask(page) ==
    /\ page \in DOMAIN page_state
    /\ page_state[page] = "running"
    /\ LET decoded == DecodePage(wire[page].body)
       IN  IF wire[page].status = "ok" /\ decoded.ok
           THEN /\ order_responses' = order_responses \o decoded.records
                /\ page_state' = [page_state EXCEPT ![page] = "done"]
           ELSE /\ page_state' = [page_state EXCEPT ![page] = "panicked"]
                /\ UNCHANGED order_responses
    /\ UNCHANGED <<fetched, fpc, pagesIdleVars>>

\* faulty variant: the tasks awaited with their results ignored
JoinAllLenient ==
    /\ fpc = "join"
    /\ \A page \in DOMAIN page_state : page_state[page] # "running"
    /\ fetched' = [ok |-> TRUE, items |-> InsertRecords(<<>>, order_responses)]
    /\ fpc' = "returned"
    /\ UNCHANGED <<order_responses, page_state, pagesIdleVars>>

\* market.rs 320-352: every task returned; the market is assembled from
\* the vector and returned
JoinAll ==
    /\ fpc = "join"
    /\ \A page \in DOMAIN page_state : page_state[page] = "done"
    /\ fetched' = [ok |-> TRUE, items |-> InsertRecords(<<>>, order_responses)]
    /\ fpc' = "returned"
    /\ UNCHANGED <<order_responses, page_state, pagesIdleVars>>

\* market.rs 320: a task panicked: try_join_all returns its JoinError and
\* `?` returns it from fetch_region; the tasks that still run run on
JoinFails ==
    /\ fpc = "join"
    /\ \E page \in DOMAIN page_state : page_state[page] = "panicked"
    /\ fpc' = "returned"
    /\ UNCHANGED <<fetched, order_responses, page_state, pagesIdleVars>>

PagesNext ==
    \/ FetchFirst
    \/ \E page \in 2..MaxPages : PageTask(page)
    \/ JoinAll
    \/ JoinFails

SpecPages == PagesInit /\ [][PagesNext]_vars

(***************************************************************************)
(* SpecSave: Regions::fetch_region and the debounced save of the catalog   *)
(***************************************************************************)
\* the last second of the clock
MaxInstant == 8

\* DEBOUNCE_DURATION, in seconds
DebounceDuration == 5

\* a task trigger_debounced_save spawned: its clone of the Regions (the
\* DashMap is cloned with its entries, the two mutexes are shared), where it
\* is and when its sleep ends
NewSaver(entries) == [map |-> entries, pc |-> "start", wake |-> 0]

SaveInit ==
    /\ map = {}
    /\ last_fetch_time = NoInstant
    /\ save_pending = FALSE
    /\ savers = <<>>
    /\ cache_file = {}
    /\ instant = 0
    /\ recent_fetch = NoInstant
    /\ last_flush = NoFlush
    /\ DeltaIdle
    /\ BookIdle
    /\ ClientIdle
    /\ IdsIdle
    /\ BuildIdle
    /\ LoopIdle
    /\ SleepIdle
    /\ FlowIdle
    /\ ApplyIdle
    /\ PagesIdle

saveIdleVars == <<deltaVars, bookVars, clientVars, idVars, buildVars, loopVars,
                  sleepVars, flowVars, applyVars, pageVars>>

\* universe.rs 262-294: get_region does not find the id in the map and
\* fetch_region fetches it, inserts it and calls trigger_debounced_save,
\* which clones self and spawns the task (176-178)
RegionsFetchRegion(id) ==
    /\ id \notin map
    /\ map' = map \cup {id}
    /\ savers' = Append(savers, NewSaver(map'))
    /\ recent_fetch' = instant
    /\ UNCHANGED <<last_fetch_time, save_pending, cache_file, instant, last_flush, saveIdleVars>>

\* universe.rs 180-193: under the lock of last_fetch_time the task stores
\* the time and, holding it, tests and sets save_pending; the task that
\* found it set returns
SaverStart(s) ==
    /\ s \in DOMAIN savers
    /\ savers[s].pc = "start"
    /\ last_fetch_time' = instant
    /\ save_pending' = TRUE
    /\ savers' = [savers EXCEPT ![s].pc = IF save_pending THEN "done" ELSE "check"]
    /\ UNCHANGED <<map, cache_file, instant, recent_fetch, last_flush, saveIdleVars>>

\* universe.rs 195-205, one turn of the loop: the task sleeps what is left
\* of the five seconds since last_fetch_time, or leaves the loop when
\* nothing is left or the time is None
SaverCheck(s) ==
    /\ s \in DOMAIN savers
    /\ savers[s].pc = "check"
    /\ LET since == instant - last_fetch_time
       IN  savers' = IF last_fetch_time # NoInstant /\ since < DebounceDuration
                     THEN [savers EXCEPT ![s].pc = "sleep",
                                         ![s].wake = instant + (DebounceDuration - since)]
                     ELSE [savers EXCEPT ![s].pc = "save"]
    /\ UNCHANGED <<map, last_fetch_time, save_pending, cache_file, instant, recent_fetch,
                   last_flush, saveIdleVars>>

\* universe.rs 200-201: the sleep is over (not before its time, maybe after)
SaverWake(s) ==
    /\ s \in DOMAIN savers
    /\ savers[s].pc = "sleep"
    /\ instant >= savers[s].wake
    /\ savers' = [savers EXCEPT ![s].pc = "check"]
    /\ UNCHANGED <<map, last_fetch_time, save_pending, cache_file, instant, recent_fetch,
                   last_flush, saveIdleVars>>

\* universe.rs 207-209, 158-170: save_to_cache writes the entries of the
\* map of the task's Regions (the write itself succeeds)
SaverSave(s) ==
    /\ s \in DOMAIN savers
    /\ savers[s].pc = "save"
    /\ cache_file' = savers[s].map
    /\ last_flush' = [at |-> instant, fetch_at |-> recent_fetch]
    /\ savers' = [savers EXCEPT ![s].pc = "reset_pending"]
    /\ UNCHANGED <<map, last_fetch_time, save_pending, instant, recent_fetch, saveIdleVars>>

\* universe.rs 212-215
SaverResetPending(s) ==
    /\ s \in DOMAIN savers
    /\ savers[s].pc = "reset_pending"
    /\ save_pending' = FALSE
    /\ savers' = [savers EXCEPT ![s].pc = "reset_last"]
    /\ UNCHANGED <<map, last_fetch_time, cache_file, instant, recent_fetch, last_flush,
                   saveIdleVars>>

\* universe.rs 216-219
SaverResetLast(s) ==
    /\ s \in DOMAIN savers
    /\ savers[s].pc = "reset_last"
    /\ last_fetch_time' = NoInstant
    /\ savers' = [savers EXCEPT ![s].pc = "done"]
    /\ UNCHANGED <<map, save_pending, cache_file, instant, recent_fetch, last_flush,
                   saveIdleVars>>

\* A second passes.  A task that is ready to run, which is every task that
\* neither sleeps nor writes the file, runs before the second is over.
SaveTick ==
    /\ instant < MaxInstant
    /\ \A s \in DOMAIN savers : savers[s].pc \in {"sleep", "save", "done"}
    /\ instant' = instant + 1
    /\ UNCHANGED <<map, last_fetch_time, save_pending, savers, cache_file, recent_fetch,
                   last_flush, saveIdleVars>>

SaveNext ==
    \/ \E id \in Regions : RegionsFetchRegion(id)
    \/ \E s \in 1..Cardinality(Regions) :
           \/ SaverStart(s)
           \/ SaverCheck(s)
           \/ SaverWake(s)
           \/ SaverSave(s)
           \/ SaverResetPending(s)
           \/ SaverResetLast(s)
    \/ SaveTick

SpecSave == SaveInit /\ [][SaveNext]_vars

(***************************************************************************)
(* Properties of Market::delta (checked under SpecDelta)                   *)
(***************************************************************************)
\* the (type_id, order_id, order) triples an item map holds
Triples(items) ==
    UNION {{<<t, i, items[t].orders[i]>> : i \in DOMAIN items[t].orders} : t \in DOMAIN items}

\* the list a diff map holds for a type, empty when the key is absent
ListAt(m, t) == IF t \in DOMAIN m THEN m[t] ELSE EmptyBag

\* how many entries of a list of orders carry the id i
CountId(b, i) ==
    LET S == {o \in BagToSet(b) : o.id = i}
    IN  BagCardinality([o \in S |-> CopiesIn(o, b)])

\* every list of a diff map is empty
AllListsEmpty(m) == \A t \in DOMAIN m : BagToSet(m[t]) = {}

\* a bag holding each element of a set exactly once
Once(S) == SetToBag(S)

OrdersOf(book) == {book.orders[i] : i \in DOMAIN book.orders}

Diffed == dpc \in {"diffed", "patched"}

\* C2: round trip. Removing from prev every id of delta(prev, next).removed
\* and inserting every order of new and modified gives a market whose
\* (type_id, order_id, order) triples are exactly those of next.
C2_DeltaRoundTrip ==
    dpc = "patched" => Triples(patched) = Triples(next_market.items)

\* a patched pair whose diff had a removed id, a new order and a modified one
C2_Witness ==
    /\ dpc = "patched"
    /\ \E t \in DOMAIN diff.removed : BagToSet(diff.removed[t]) # {}
    /\ \E t \in DOMAIN diff.new : BagToSet(diff.new[t]) # {}
    /\ \E t \in DOMAIN diff.modified : BagToSet(diff.modified[t]) # {}

\* C3: delta(M, M) reports no new order, no modified order and no removed
\* order id, for any type.
C3_SelfDeltaEmpty ==
    (Diffed /\ prev_market = next_market) =>
        /\ AllListsEmpty(diff.new)
        /\ AllListsEmpty(diff.modified)
        /\ AllListsEmpty(diff.removed)

\* a market with orders under both types compared with itself
C3_Witness ==
    /\ Diffed
    /\ prev_market = next_market
    /\ \A t \in TypeIds : t \in DOMAIN prev_market.items /\ DOMAIN prev_market.items[t].orders # {}

\* C4: delta(empty, next).new holds every order of next exactly once under
\* its type, and modified and removed have no key.
C4_DeltaFromEmpty ==
    (Diffed /\ DOMAIN prev_market.items = {}) =>
        /\ DOMAIN diff.new = DOMAIN next_market.items
        /\ \A t \in DOMAIN diff.new : diff.new[t] = Once(OrdersOf(next_market.items[t]))
        /\ DOMAIN diff.modified = {}
        /\ DOMAIN diff.removed = {}

\* the empty market against a market with orders under both types
C4_Witness ==
    /\ Diffed
    /\ prev_market = EmptyMarket
    /\ \A t \in TypeIds : t \in DOMAIN next_market.items /\ DOMAIN next_market.items[t].orders = OrderIds

\* C5: delta(prev, empty).removed holds every order id of prev exactly once
\* under its type, and new and modified have no key.
C5_DeltaToEmpty ==
    (Diffed /\ DOMAIN next_market.items = {}) =>
        /\ DOMAIN diff.removed = DOMAIN prev_market.items
        /\ \A t \in DOMAIN diff.removed : diff.removed[t] = Once(DOMAIN prev_market.items[t].orders)
        /\ DOMAIN diff.new = {}
        /\ DOMAIN diff.modified = {}

\* a market with orders under both types against the empty market
C5_Witness ==
    /\ Diffed
    /\ next_market = EmptyMarket
    /\ \A t \in TypeIds : t \in DOMAIN prev_market.items /\ DOMAIN prev_market.items[t].orders = OrderIds

\* C6: for a type in both markets every order id of prev[t] and next[t]
\* falls in exactly one class: unchanged (in no list), modified (next's value
\* once in modified[t]), removed (the id once in removed[t]), new (the order
\* once in new[t]).
C6_Classification ==
    Diffed =>
        \A t \in DOMAIN prev_market.items \cap DOMAIN next_market.items :
            LET old == prev_market.items[t].orders
                new == next_market.items[t].orders
            IN  \A i \in DOMAIN old \cup DOMAIN new :
                    LET n == CountId(ListAt(diff.new, t), i)
                        m == CountId(ListAt(diff.modified, t), i)
                        r == CopiesIn(i, ListAt(diff.removed, t))
                    IN  CASE i \in DOMAIN old /\ i \in DOMAIN new /\ old[i] = new[i] ->
                                n = 0 /\ m = 0 /\ r = 0
                          [] i \in DOMAIN old /\ i \in DOMAIN new /\ old[i] # new[i] ->
                                n = 0 /\ m = 1 /\ r = 0 /\ CopiesIn(new[i], diff.modified[t]) = 1
                          [] i \in DOMAIN old /\ i \notin DOMAIN new ->
                                n = 0 /\ m = 0 /\ r = 1
                          [] i \notin DOMAIN old /\ i \in DOMAIN new ->
                                n = 1 /\ m = 0 /\ r = 0 /\ CopiesIn(new[i], diff.new[t]) = 1

\* one type with an unchanged and a modified order, another with a removed
\* and a new one
C6_Witness ==
    /\ Diffed
    /\ \E t \in DOMAIN prev_market.items \cap DOMAIN next_market.items :
        LET old == prev_market.items[t].orders
            new == next_market.items[t].orders
        IN  /\ \E i \in DOMAIN old \cap DOMAIN new : old[i] = new[i]
            /\ \E i \in DOMAIN old \cap DOMAIN new : old[i] # new[i]
    /\ \E t \in DOMAIN prev_market.items \cap DOMAIN next_market.items :
        LET old == prev_market.items[t].orders
            new == next_market.items[t].orders
        IN  /\ DOMAIN old \ DOMAIN new # {}
            /\ DOMAIN new \ DOMAIN old # {}

\* C7: modified[t] exists exactly for the types in both markets, removed[t]
\* exactly for the types of prev, and new[t] exists only when at least one
\* new order of type t exists.
C7_KeyPresence ==
    Diffed =>
        /\ DOMAIN diff.modified = DOMAIN prev_market.items \cap DOMAIN next_market.items
        /\ DOMAIN diff.removed = DOMAIN prev_market.items
        /\ \A t \in DOMAIN diff.new : BagToSet(diff.new[t]) # {}

(***************************************************************************)
(* Properties of the book applicator (checked under Spec)                  *)
(***************************************************************************)
\* every snapshot the loops sent has been received and its task has ended
Quiescent == channel = <<>> /\ DOMAIN tasks = {}

\* the <<order_id, order>> pairs a market holds under a type
OrdersUnder(market, t) ==
    IF t \in DOMAIN market.items
    THEN {<<i, market.items[t].orders[i]>> : i \in DOMAIN market.items[t].orders}
    ELSE {}

MaxOf(S) == CHOOSE x \in S : \A y \in S : y <= x

\* C1: once every received snapshot has been processed, for every type the
\* global book's orders are the union by order_id of the orders of the
\* latest snapshot each region sent.
C1_BookIsUnionOfLatest ==
    Quiescent =>
        \A t \in TypeIds :
            OrdersUnder(global_book, t) = UNION {OrdersUnder(latest[r], t) : r \in DOMAIN latest}

\* C8: no step lowers global_book.last_modified or global_book.expires.
C8_StampsMonotone ==
    [][/\ global_book'.last_modified >= global_book.last_modified
       /\ global_book'.expires >= global_book.expires]_vars

\* a snapshot older in both times than the book has just been applied
C8_Witness ==
    \E k \in DOMAIN tasks :
        /\ tasks[k].pc = "store"
        /\ tasks[k].new_market.last_modified < global_book.last_modified
        /\ tasks[k].new_market.expires < global_book.expires

\* C9: global_book.last_modified is the greatest last_modified and
\* global_book.expires the greatest expires of the applied snapshots, and
\* both are the epoch when none was applied.
C9_StampsAreMaxima ==
    /\ applied = {} => global_book.last_modified = 0 /\ global_book.expires = 0
    /\ applied # {} =>
        /\ global_book.last_modified = MaxOf({p[1] : p \in applied})
        /\ global_book.expires = MaxOf({p[2] : p \in applied})

\* all snapshots applied, the greatest last_modified and the greatest
\* expires coming from different snapshots
C9_Witness ==
    /\ Quiescent
    /\ emitted = MaxEmit
    /\ \E p, q \in applied : p[1] > q[1] /\ p[2] < q[2]

\* C13: the applicator is serial: at most one (snapshot, region) pair is
\* being processed at any time, so a pair is finished before the next one is
\* begun.
C13_ApplicatorSerial ==
    Cardinality(DOMAIN tasks) <= 1

\* C14: within one region the snapshots are processed in the order they were
\* emitted: while an earlier snapshot of a region is not yet applied and
\* stored, the delta of a later snapshot of that region is not yet computed.
\* (Tasks are numbered in the order of receipt, which the FIFO channel makes
\* the order of emission.)
C14_RegionOrder ==
    \A j \in DOMAIN tasks, k \in DOMAIN tasks :
        (j < k /\ tasks[j].region = tasks[k].region) => tasks[k].pc = "delta"

\* C18: GET /market/{type_id} answers 404 when the book has no order of the
\* type and 200 with the orders otherwise (the handler takes the book lock,
\* so it sees the book between two applications).
C18_NotFoundWithoutOrders ==
    book_lock = 0 =>
        \A t \in TypeIds :
            LET response == OrdersByType(global_book, t)
                orders == {p[2] : p \in OrdersUnder(global_book, t)}
            IN  IF orders = {}
                THEN response.status = 404
                ELSE response.status = 200 /\ response.body = orders

\* C20: whenever a task computes its delta, the previous market it reads is
\* the snapshot of its region received immediately before its own (the empty
\* market for the region's first).
C20_DeltaAgainstPredecessor ==
    [][\A k \in DOMAIN tasks :
          (tasks[k].pc = "delta" /\ k \in DOMAIN tasks' /\ tasks'[k].pc = "lock")
          => PrevMarket(tasks[k].region) = tasks[k].pred]_vars

(***************************************************************************)
(* Properties of the upstream client (checked under SpecClient)            *)
(***************************************************************************)
\* C10: once a response has set errors_remaining to a value <= 10, no get
\* that starts afterwards performs its send before the reset_seconds of
\* that response have elapsed since errors_remaining was set.
C10_NoSendBeforeReset ==
    \A g \in Gets :
        (/\ g \in fresh
         /\ gets[g].sent_at >= 0
         /\ budget_set.at >= 0
         /\ budget_set.remain <= ThrottleLimit)
        => gets[g].sent_at >= budget_set.at + budget_set.reset

\* C11: with the budget at 5 errors and a reset of 60 s (2 s on the clock's
\* scale), every get issued while a throttle wait is in progress is released
\* when that wait ends: it never sleeps a throttle wait of its own that ends
\* later than the one it joined.
C11_JoinsSameWait ==
    \A g \in Gets :
        (/\ gets[g].joined >= 0
         /\ gets[g].pc = "sleep"
         /\ gets[g].path = "throttle")
        => gets[g].wake <= gets[g].joined

\* the calls that hold a permit by the code's text: from the acquire (69) to
\* the end of the last send attempt (the response of 88 or 102, or the
\* failure of 102)
InSpan(g) ==
    \/ gets[g].pc \in {"check", "send", "flight", "decrement", "resend", "reflight"}
    \/ gets[g].pc \in {"timeout", "sleep"} /\ gets[g].path = "throttle"

\* C12: the calls between their acquire and the end of their last send
\* attempt are at most max_sem, each holds exactly one permit (the permits
\* left are max_sem minus their number), and with no call in that span every
\* permit is back.
C12_ConcurrencyCap ==
    LET span == {g \in Gets : InSpan(g)}
    IN  /\ Cardinality(span) <= max_sem
        /\ permits = max_sem - Cardinality(span)
        /\ span = {} => permits = max_sem

\* a call that got its permit, failed its first send and retried has
\* returned, another call waits for a permit of a pool of one, and all
\* permits are back
C12_Witness ==
    /\ max_sem = 1
    /\ permits = 1
    /\ \E g, h \in Gets :
        /\ gets[g].pc = "done"
        /\ errors = InitialErrors - 1
        /\ gets[h].pc = "acquire"

(***************************************************************************)
(* Properties of the identifiers (checked under SpecIds)                   *)
(***************************************************************************)
\* the interval the specification gives for each identifier type
StatedRange(kind) ==
    CASE kind = "RegionID" -> [start |-> 10000000, end |-> 20000000]
      [] kind = "ConstellationID" -> [start |-> 20000000, end |-> 30000000]
      [] kind = "SystemID" -> [start |-> 30000000, end |-> 40000000]
      [] kind = "StationID" -> [start |-> 60000000, end |-> 64000000]

\* C17: construction accepts v exactly when start <= v < end of the type's
\* interval (so min and max-1 are accepted, min-1 and max rejected); an
\* accepted identifier carries v, a rejection carries v and the interval.
C17_IdRanges ==
    id_result # NoId =>
        LET range == StatedRange(id_kind)
        IN  /\ id_result.ok <=> (range.start <= id_value /\ id_value < range.end)
            /\ id_result.value = id_value
            /\ ~id_result.ok => id_result.acceptable = range

\* a value one past the last station id, tried as a StationID and rejected
C17_Witness ==
    /\ id_kind = "StationID"
    /\ id_value = 64000000
    /\ id_result # NoId
    /\ ~id_result.ok

(***************************************************************************)
(* Properties of the assembled market (checked under SpecBuild)            *)
(***************************************************************************)
\* a record the specification calls valid: a station location and a
\* parsable date
ValidRecord(rec) ==
    /\ 60000000 <= rec.location_id
    /\ rec.location_id < 64000000
    /\ rec.issued = "rfc3339"

\* C19: every order of the returned snapshot has a location_id in
\* [60000000, 64000000); a record outside that range is skipped, and the
\* snapshot still succeeds and holds every valid record (the last one, when
\* several valid records carry the same type and order id).
C19_StationRange ==
    bpc = "built" =>
        /\ built_market.ok
        /\ \A t \in DOMAIN built_market.items : \A i \in DOMAIN built_market.items[t].orders :
               /\ 60000000 <= built_market.items[t].orders[i].location_id
               /\ built_market.items[t].orders[i].location_id < 64000000
        /\ \A n \in 1..Len(records) :
               LET rec == records[n]
                   last == ~\E m \in (n + 1)..Len(records) :
                               /\ ValidRecord(records[m])
                               /\ records[m].type_id = rec.type_id
                               /\ records[m].order_id = rec.order_id
               IN  (ValidRecord(rec) /\ last) =>
                       /\ rec.type_id \in DOMAIN built_market.items
                       /\ rec.order_id \in DOMAIN built_market.items[rec.type_id].orders
                       /\ built_market.items[rec.type_id].orders[rec.order_id] =
                              [id |-> rec.order_id, price |-> rec.price,
                               location_id |-> rec.location_id]

\* a record one past the station range and a valid record of the same type:
\* the snapshot holds the valid one alone
C19_Witness ==
    /\ bpc = "built"
    /\ \E n, m \in 1..Len(records) :
        /\ records[n].location_id = 64000000
        /\ records[n].issued = "rfc3339"
        /\ ValidRecord(records[m])
        /\ records[n].type_id = records[m].type_id
        /\ DOMAIN built_market.items[records[m].type_id].orders = {records[m].order_id}
        /\ records[n].order_id # records[m].order_id

(***************************************************************************)
(* Properties of the refresh loops (checked under SpecLoop)                *)
(***************************************************************************)
\* the fetch_region calls of a region with a request in progress: the call
\* the loop is in, and every call one of whose page tasks still runs
FetchesInFlight(r) ==
    (IF loops[r].pc \in {"first", "join"} THEN {loops[r].fetch} ELSE {})
    \cup {t.fetch : t \in {u \in page_tasks : u.region = r /\ u.state = "running"}}

\* C15: for every region at most one call of fetch_region, its page
\* requests included, is in progress at any moment.
C15_OneFetchPerRegion ==
    \A r \in catalog : Cardinality(FetchesInFlight(r)) <= 1

\* C16: the refresh interval map holds exactly the region ids of the
\* catalog, all absent before the first fetch, whatever events were
\* received.
C16_IntervalKeys ==
    /\ DOMAIN refresh_intervals = catalog
    /\ fetches = 0 =>
           \A r \in catalog : refresh_intervals[r] = Absent

\* the catalog has one region only, and two refresh events of it have been
\* received
C16_Witness ==
    /\ catalog # Regions
    /\ events = <<>>
    /\ \E r \in catalog :
        /\ loops[r].fetch = 2
        /\ loops[r].pc = "sleep"
        /\ refresh_intervals[r] # Absent

(***************************************************************************)
(* Properties of the status match of esi_get (checked under SpecGets)      *)
(***************************************************************************)
\* the call g receives the response of its request in this step
Responds(g) == gets[g].pc \in {"flight", "reflight"} /\ gets'[g].status # gets[g].status

\* the call g leaves the position pc in this step
Leaves(g, pc) == gets[g].pc = pc /\ gets'[g].pc # pc

BudgetUnchanged == errors' = errors /\ error_timeout' = error_timeout

\* C28: a call that receives a 4xx response other than 420 writes the
\* response's x-esi-error-limit-remain to errors, then its
\* x-esi-error-limit-reset to error_timeout, and only then returns the error.
C28_BudgetFromHeaders ==
    [][\A g \in Gets :
          /\ (Responds(g) /\ gets'[g].status \in 400..499 /\ gets'[g].status # 420) =>
                 /\ gets'[g].pc = "set_errors"
                 /\ gets'[g].result = "none"
                 /\ gets'[g].resp.status = gets'[g].status
          /\ Leaves(g, "set_errors") =>
                 /\ errors' = gets[g].resp.remain
                 /\ gets'[g].pc = "set_timeout"
                 /\ gets'[g].result = "none"
                 /\ gets'[g].resp = gets[g].resp
          /\ Leaves(g, "set_timeout") =>
                 /\ error_timeout' = gets[g].resp.reset
                 /\ gets'[g].pc = "done"
                 /\ gets'[g].result = "err"]_vars

\* a call has returned the error of a 404 whose headers said 11 and 2, and
\* the budget holds both values
C28_Witness ==
    /\ errors = 11
    /\ error_timeout = 2
    /\ \E g \in Gets :
        /\ gets[g].pc = "done"
        /\ gets[g].status = 404
        /\ gets[g].result = "err"

\* C29: a call that receives a 200, a 5xx or a status of no arm returns in
\* the same step with errors and error_timeout as they were; and no step of
\* any call changes either of them except the two assignments after a 4xx
\* other than 420 and the decrement after a transport failure.
C29_BudgetFrame ==
    [][/\ \A g \in Gets :
            (Responds(g) /\ ~(gets'[g].status \in 400..499)) =>
                /\ gets'[g].pc = "done"
                /\ gets'[g].result = IF gets'[g].status = 200 THEN "ok" ELSE "err"
                /\ BudgetUnchanged
       /\ ~BudgetUnchanged =>
            \E g \in Gets :
                \/ Leaves(g, "decrement")
                \/ /\ Leaves(g, "set_errors") \/ Leaves(g, "set_timeout")
                   /\ gets[g].status \in 400..499
                   /\ gets[g].status # 420]_vars

\* a 5xx and a status of no arm have both been returned as errors, and the
\* budget is the one ESIClient::new set
C29_Witness ==
    /\ errors = InitialErrors
    /\ error_timeout = InitialTimeout
    /\ \E g, h \in Gets :
        /\ gets[g].pc = "done" /\ gets[g].status = 500 /\ gets[g].result = "err"
        /\ gets[h].pc = "done" /\ gets[h].status = 304 /\ gets[h].result = "err"

\* C30: a call that receives a 420 gives its permit back in that step, then
\* takes the error_timeout lock and sleeps error_timeout seconds from that
\* moment, and returns the error only when the sleep is over; none of these
\* steps changes errors or error_timeout.
C30_WaitOn420 ==
    [][\A g \in Gets :
          /\ (Responds(g) /\ gets'[g].status = 420) =>
                 /\ gets'[g].pc = "timeout"
                 /\ gets'[g].path = "420"
                 /\ gets'[g].result = "none"
                 /\ permits' = permits + 1
                 /\ BudgetUnchanged
          /\ (gets[g].path = "420" /\ Leaves(g, "timeout")) =>
                 /\ gets'[g].pc = "sleep"
                 /\ gets'[g].wake = now + error_timeout
                 /\ BudgetUnchanged
          /\ (gets[g].path = "420" /\ Leaves(g, "sleep")) =>
                 /\ now >= gets[g].wake
                 /\ gets'[g].pc = "done"
                 /\ gets'[g].result = "err"
                 /\ BudgetUnchanged
          /\ (gets[g].status = 420 /\ gets'[g].pc = "done" /\ gets[g].pc # "done") =>
                 gets[g].pc = "sleep"]_vars

\* a call sleeps the 2 s of error_timeout after a 420 while every permit of
\* the pool is free
C30_Witness ==
    /\ error_timeout = 2
    /\ permits = max_sem
    /\ \E g \in Gets :
        /\ gets[g].status = 420
        /\ gets[g].pc = "sleep"
        /\ gets[g].wake = now + 2

(***************************************************************************)
(* Properties of the sleep after a fetch (checked under SpecSleep)         *)
(***************************************************************************)
\* C24 as stated: after a successful fetch the loop sleeps
\* max(0, expires + 1 s - now), whether expires is after, at or before now.
C24_SleepMaxZero ==
    sleep_dur # -1 =>
        sleep_dur = IF expiry_time + 1 - utc_now > 0 THEN expiry_time + 1 - utc_now ELSE 0

\* C24 amended: the loop sleeps expires + 1 s - now when that is not
\* negative, and 30 s when it is (expires more than one second before now).
C24_SleepOrFallback ==
    sleep_dur # -1 =>
        /\ expiry_time + 1 >= utc_now => sleep_dur = expiry_time + 1 - utc_now
        /\ expiry_time + 1 < utc_now => sleep_dur = 30

\* the snapshot expired two seconds before the loop looked at the clock, and
\* the loop sleeps 30 s
C24_Witness ==
    /\ expiry_time + 2 = utc_now
    /\ sleep_dur = 30

(***************************************************************************)
(* Properties of the refresh loops and their two channels (SpecLoop,       *)
(* SpecLink)                                                               *)
(***************************************************************************)
\* C23: whenever a call of fetch_region ends without a snapshot, the loop
\* goes to its 15 s wait, from which it fetches again, and that step sends
\* no snapshot, broadcasts no event and leaves the global book and the
\* regional snapshots as they were.
C23_FailureBacksOff ==
    [][\A r \in catalog :
          (loops[r].pc \in {"first", "join"} /\ loops'[r].pc \notin {"first", "join", "send"}) =>
              /\ loops'[r].pc = "backoff"
              /\ queue' = queue
              /\ events' = events
              /\ global_book' = global_book
              /\ regions' = regions]_vars

\* C25: a loop broadcasts the event of a region and an expires only in the
\* step after the one in which the channel accepted the snapshot of that
\* region and expires, and it does so once for every snapshot accepted;
\* without a receiver the broadcast queues nothing and the loop goes on to
\* its sleep all the same.
C25_BroadcastAfterAccept ==
    [][/\ \A r \in catalog :
            /\ (loops[r].pc = "send" /\ loops'[r].pc # "send") =>
                   /\ events' = events
                   /\ \/ /\ loops'[r].pc = "broadcast"
                         /\ loops'[r].expires = loops[r].expires
                         /\ queue' = Append(queue, [region_id |-> r, expires |-> loops[r].expires])
                      \/ /\ loops'[r].pc = "exited"
                         /\ ~rx_open
                         /\ queue' = queue
            /\ (loops[r].pc # "broadcast" /\ loops'[r].pc = "broadcast") =>
                   loops[r].pc = "send"
            /\ (loops[r].pc = "broadcast" /\ loops'[r] # loops[r]) =>
                   /\ loops'[r] = [loops[r] EXCEPT !.pc = "sleep"]
                   /\ events' = IF subscribed
                                THEN Append(events, [region_id |-> r, expires |-> loops[r].expires])
                                ELSE events
       /\ Len(events') > Len(events) =>
            \E r \in catalog : loops[r].pc = "broadcast" /\ loops'[r].pc = "sleep"]_vars

\* the broadcast has lost its receiver before the first fetch was over, and
\* a loop has gone through two fetches, sends and broadcasts since
C25_Witness ==
    /\ ~subscribed
    /\ \A r \in catalog : refresh_intervals[r] = Absent
    /\ \E r \in catalog :
        /\ loops[r].fetch = 2
        /\ loops[r].pc = "sleep"

\* C26 (its safety half): once the receiver of the applicator channel has
\* been dropped, no refresh loop calls fetch_region again.
C26_ClosedStopsFetching ==
    [][~rx_open => fetches' = fetches]_vars

(***************************************************************************)
(* Properties of the flow of snapshots (checked under SpecFlow)            *)
(***************************************************************************)
\* C27: the snapshots sent by the loops and not yet applied to the global
\* book, those in the channel and those in the applicator, are never more
\* than the capacity of the channel plus one.
C27_InFlightBounded ==
    queued + processing <= ChannelCapacity + 1

(***************************************************************************)
(* Properties of the critical section (checked under SpecApply)            *)
(***************************************************************************)
\* C21: whenever the lock of the global book is free the book is the one
\* left by the last complete application of a diff (removals, insertions,
\* overwrites and both timestamps), and every request for the orders of a
\* type was answered from such a book.
C21_AtomicApply ==
    /\ book_lock = 0 => global_book = committed
    /\ observed.response = observed.whole

\* a request was answered with orders, and a task is now inside its
\* critical section with the orders of its diff applied and the
\* timestamps not yet
C21_Witness ==
    /\ observed.response.status = 200
    /\ \E k \in DOMAIN tasks :
        /\ tasks[k].pc = "stamp"
        /\ global_book.items # committed.items
        /\ tasks[k].new_market.expires > global_book.expires

\* the positions of a task between book.lock().await and drop(global_book)
MutationPcs == {"apply", "insert", "modify", "stamp", "unlock"}

C31_RetryOnce ==
    [][\A g \in Gets :
          /\ Leaves(g, "flight") =>
                 /\ errors' = errors
                 /\ Responds(g) \/ gets'[g].pc = "decrement"
          /\ Leaves(g, "decrement") =>
                 /\ errors' = errors - 1
                 /\ gets'[g].pc = "resend"
          /\ Leaves(g, "resend") => gets'[g].pc = "reflight"
          /\ Leaves(g, "reflight") =>
                 /\ errors' = errors
                 /\ Responds(g) \/ (gets'[g].pc = "done" /\ gets'[g].result = "err")
          /\ gets'[g].pc \in {"flight", "reflight"} =>
                 gets[g].pc \in {"send", "flight", "resend", "reflight"}]_vars

\* C35: the stored errors and error_timeout are the two header values of
\* one response (or the initial pair, less the decrements of errors)
\* whenever another call could read them, that is whenever both locks are
\* free.
C35_PairOfOneResponse ==
    (errors_lock = 0 /\ timeout_lock = 0) => error_timeout = budget_set.reset

\* C36: errors never underflows: no subtraction wraps around to a value
\* above every value the field was given, and none panics.
C36_NoUnderflow ==
    /\ errors >= 0
    /\ errors <= InitialErrors
    /\ \A g \in Gets : gets[g].result # "panic"

(***************************************************************************)
(* Properties of the calls under fair scheduling (checked under SpecLive)  *)
(***************************************************************************)
\* C37: whatever the capacity of the pool and however the calls interleave,
\* the client never stops with a call unfinished: as long as some call has
\* not ended, a call or the timer of a sleep can take a step.  Every
\* behaviour being finite, under the fairness of SpecLive this is the same
\* as every call ending.
C37_NoDeadlock ==
    (\A g \in Gets : gets[g].pc = "done") \/ ENABLED LiveNext

\* a call sleeps its throttle wait holding the last permit and both locks
\* while another waits for the permit
C37_Witness ==
    /\ permits = 0
    /\ \E g, h \in Gets :
        /\ gets[g].pc = "sleep"
        /\ gets[g].path = "throttle"
        /\ errors_lock = g
        /\ timeout_lock = g
        /\ gets[h].pc = "acquire"

C34_NaNUnchanged ==
    Diffed =>
        \A t \in DOMAIN prev_market.items \cap DOMAIN next_market.items :
            \A i \in DOMAIN prev_market.items[t].orders \cap DOMAIN next_market.items[t].orders :
                prev_market.items[t].orders[i] = next_market.items[t].orders[i] =>
                    next_market.items[t].orders[i] \notin BagToSet(diff.modified[t])

(***************************************************************************)
(* Properties of fetch_region over the pages (checked under SpecPages)     *)
(***************************************************************************)
\* fetch_region returned Ok
Snapshot == fpc = "returned" /\ fetched.ok

\* the order a record converts into is in the market returned
InSnapshot(rec) ==
    /\ rec.type_id \in DOMAIN fetched.items
    /\ rec.order_id \in DOMAIN fetched.items[rec.type_id].orders
    /\ fetched.items[rec.type_id].orders[rec.order_id] = OrderTryFrom(rec).order

\* C32: fetch_region returns a snapshot only if every page 1..N was fetched
\* and decoded, and the snapshot is then assembled from the records of all
\* N pages: every record of every page went into it, and every record that
\* converts to an order is in it.
C32_AllPagesOrNone ==
    Snapshot =>
        \A page \in 1..Len(wire) :
            /\ wire[page].status = "ok"
            /\ DecodePage(wire[page].body).ok
            /\ \A k \in 1..Len(wire[page].body) :
                   LET rec == wire[page].body[k]
                   IN  /\ \E n \in 1..Len(order_responses) : order_responses[n] = rec
                       /\ OrderTryFrom(rec).ok => InSnapshot(rec)

\* a snapshot of three pages with a record each, the third page decoded
\* before the second
C32_Witness ==
    /\ Snapshot
    /\ Len(wire) = 3
    /\ \A page \in 1..3 : Len(wire[page].body) >= 1 /\ InSnapshot(wire[page].body[1])
    /\ \E n, m \in 1..Len(order_responses) :
           /\ n < m
           /\ order_responses[n] = wire[3].body[1]
           /\ order_responses[m] = wire[2].body[1]

\* a record the specification calls valid: a parsable date and a system id
\* in the range (the station of every record here is valid)
ValidWire(rec) ==
    /\ rec.issued = "rfc3339"
    /\ 30000000 <= rec.system_id
    /\ rec.system_id < 40000000

\* C33: when every page is served, fetch_region returns a snapshot whatever
\* the records are like: a record with an unparsable issued date or an
\* out-of-range system_id is dropped, and every valid record of every page
\* is in the snapshot.
C33_BadRecordsDropped ==
    (fpc = "returned" /\ \A page \in 1..Len(wire) : wire[page].status = "ok") =>
        /\ fetched.ok
        /\ \A page \in 1..Len(wire) : \A k \in 1..Len(wire[page].body) :
               ValidWire(wire[page].body[k]) => InSnapshot(wire[page].body[k])

(***************************************************************************)
(* Properties of the debounced save (checked under SpecSave)               *)
(***************************************************************************)
\* every task trigger_debounced_save spawned has ended: nothing is left
\* that could write the file
SaversEnded == savers # <<>> /\ \A s \in DOMAIN savers : savers[s].pc = "done"

\* C39: every fetched region is eventually written to the cache file, so
\* once every save task has ended the file holds every region fetched so
\* far; and no flush happens earlier than 5 s after the most recent fetch.
C39_DebouncedSave ==
    /\ SaversEnded => map \subseteq cache_file
    /\ last_flush # NoFlush => last_flush.at >= last_flush.fetch_at + DebounceDuration

=============================================================================
